---------------------------- MODULE Spec2Model ----------------------------
(***************************************************************************)
(* Reconciliation validation and duplicate-detection engine                *)
(* (backend controller: addReconciliation, checkAsOfDuplicates,            *)
(* checkTrueDuplicates) over the RECONCILIATION table.                     *)
(*                                                                         *)
(* A text is a sequence of one-character strings, so that trimming,        *)
(* the numeric pattern and ordering are computed, not assumed.  A cell or  *)
(* column value is a tagged record: undefined, null, a string or a number. *)
(* A number is m / 10^e with e minimal.                                    *)
(***************************************************************************)
EXTENDS Integers, Sequences, FiniteSets, Bags, TLC

(***************************************************************************)
(* Values                                                                  *)
(***************************************************************************)
Undef == [t |-> "undefined", s |-> <<>>, m |-> 0, e |-> 0]
Null == [t |-> "null", s |-> <<>>, m |-> 0, e |-> 0]
Str(x) == [t |-> "string", s |-> x, m |-> 0, e |-> 0]
Num(m, e) == [t |-> "number", s |-> <<>>, m |-> m, e |-> e]

IsUndef(v) == v.t = "undefined"
IsNull(v) == v.t = "null"

DigitChars == <<"0", "1", "2", "3", "4", "5", "6", "7", "8", "9">>
IsDigit(c) == \E k \in 1..Len(DigitChars) : DigitChars[k] = c
DigitVal(c) == (CHOOSE k \in 1..Len(DigitChars) : DigitChars[k] = c) - 1
IsSpace(c) == c = " "

\* String.prototype.trim
RECURSIVE TrimLeft(_)
TrimLeft(x) == IF x # <<>> /\ IsSpace(Head(x)) THEN TrimLeft(Tail(x)) ELSE x
RECURSIVE TrimRight(_)
TrimRight(x) ==
  IF x # <<>> /\ IsSpace(x[Len(x)]) THEN TrimRight(SubSeq(x, 1, Len(x) - 1)) ELSE x
Trim(x) == TrimRight(TrimLeft(x))

AllDigits(x) == \A k \in 1..Len(x) : IsDigit(x[k])

\* variant: /^-?\d*\.?\d*$/, which lets a text end in the point
NumericPatternLoose(x) ==
  LET b == IF x # <<>> /\ Head(x) = "-" THEN Tail(x) ELSE x
  IN \E i \in 0..Len(b) : \E d \in {0, 1} :
        /\ i + d <= Len(b)
        /\ AllDigits(SubSeq(b, 1, i))
        /\ d = 1 => b[i + 1] = "."
        /\ AllDigits(SubSeq(b, i + d + 1, Len(b)))

\* /^-?\d*\.?\d+$/.test(str)
NumericPattern(x) ==
  LET b == IF x # <<>> /\ Head(x) = "-" THEN Tail(x) ELSE x
  IN \E i \in 0..Len(b) : \E d \in {0, 1} :
        /\ i + d < Len(b)
        /\ AllDigits(SubSeq(b, 1, i))
        /\ d = 1 => b[i + 1] = "."
        /\ AllDigits(SubSeq(b, i + d + 1, Len(b)))

RECURSIVE DigitsValue(_)
DigitsValue(x) ==
  IF x = <<>> THEN 0 ELSE 10 * DigitsValue(SubSeq(x, 1, Len(x) - 1)) + DigitVal(x[Len(x)])

RECURSIVE Normalize(_, _)
Normalize(m, e) ==
  IF e > 0 /\ m % 10 = 0 THEN Normalize(m \div 10, e - 1) ELSE Num(m, e)

\* Number(str), for a str that matches the numeric pattern
ToNumber(x) ==
  LET neg == x # <<>> /\ Head(x) = "-"
      b == IF neg THEN Tail(x) ELSE x
      dots == {k \in 1..Len(b) : b[k] = "."}
      e == IF dots = {} THEN 0 ELSE Len(b) - (CHOOSE k \in dots : TRUE)
      ds == SelectSeq(b, IsDigit)
      mag == DigitsValue(ds)
  IN Normalize(IF neg THEN 0 - mag ELSE mag, e)

RECURSIVE NatToText(_)
NatToText(n) ==
  IF n < 10 THEN <<DigitChars[n + 1]>>
  ELSE NatToText(n \div 10) \o <<DigitChars[(n % 10) + 1]>>

RECURSIVE Pow10(_)
Pow10(e) == IF e = 0 THEN 1 ELSE 10 * Pow10(e - 1)

RECURSIVE PadLeft(_, _)
PadLeft(x, n) == IF Len(x) >= n THEN x ELSE PadLeft(<<"0">> \o x, n)

\* Number.prototype.toString
NumberToText(v) ==
  LET mag == IF v.m < 0 THEN 0 - v.m ELSE v.m
      sign == IF v.m < 0 THEN <<"-">> ELSE <<>>
  IN IF v.e = 0 THEN sign \o NatToText(mag)
     ELSE sign \o NatToText(mag \div Pow10(v.e)) \o <<".">>
               \o PadLeft(NatToText(mag % Pow10(v.e)), v.e)

\* val.toString() of a string or number
ToText(v) == IF v.t = "number" THEN NumberToText(v) ELSE v.s

\* !val
Falsy(v) ==
  \/ v.t \in {"undefined", "null"}
  \/ v.t = "string" /\ v.s = <<>>
  \/ v.t = "number" /\ v.m = 0

safeValue(val) == IF IsUndef(val) \/ val = Str(<<>>) THEN Null ELSE val

safeNumber(val) ==
  IF val.t = "number" THEN val
  ELSE IF IsUndef(val) \/ IsNull(val) THEN Null
  ELSE LET str == Trim(ToText(val))
       IN IF str = <<>> \/ ~NumericPattern(str) THEN Null ELSE ToNumber(str)

\* val?.toString().trim()
OptTrim(v) == IF IsUndef(v) \/ IsNull(v) THEN Undef ELSE Str(Trim(ToText(v)))

\* a || null
OrNull(v) == IF Falsy(v) THEN Null ELSE v

(***************************************************************************)
(* Rows of an uploaded sheet: a function from the column names present in  *)
(* the row to cell values (sheet_to_json leaves an empty cell out).        *)
(***************************************************************************)
Cell(row, col) == IF col \in DOMAIN row THEN row[col] ELSE Undef


Columns == {"ORDERNUMBER", "SALESDOCUMENT", "BATCHNUMBER", "YEAR",
            "MATERIAL_NUMBER", "STATUS", "Order ID", "Material"}

(***************************************************************************)
(* The RECONCILIATION table: a bag of records (the table has no key, so    *)
(* equal rows can be stored more than once).                               *)
(***************************************************************************)
\* a number bound to a VARCHAR2 column is stored as its text
Varchar(v) == IF v.t = "number" THEN Str(NumberToText(v)) ELSE v

\* the bind values of the INSERT statement, as the columns store them
InsertBinds(row) ==
  [ORDERNUMBER |-> Varchar(safeValue(Cell(row, "ORDERNUMBER"))),
   SALESDOCUMENT |-> safeNumber(Cell(row, "SALESDOCUMENT")),
   BATCHNUMBER |-> Varchar(safeValue(Cell(row, "BATCHNUMBER"))),
   YEAR |-> safeNumber(Cell(row, "YEAR")),
   MATERIAL_NUMBER |-> Varchar(safeValue(Cell(row, "MATERIAL_NUMBER"))),
   STATUS |-> Varchar(safeValue(Cell(row, "STATUS")))]

\* Oracle stores the empty string as NULL
SqlValue(v) == IF IsUndef(v) \/ v = Str(<<>>) THEN Null ELSE v

\* column = :bind (never true of a NULL)
SqlEq(col, bind) == ~IsNull(col) /\ ~IsNull(SqlValue(bind)) /\ col = SqlValue(bind)

\* variant: the order number alone
WhereOrderOnly(rec, ord, mat) == SqlEq(rec.ORDERNUMBER, ord)

\* WHERE ORDERNUMBER = :ord AND MATERIAL_NUMBER = :mat
WhereIdentity(rec, ord, mat) ==
  SqlEq(rec.ORDERNUMBER, ord) /\ SqlEq(rec.MATERIAL_NUMBER, mat)

\* the rows of the table that are in S, each as often as the table holds it
SubBagWhere(table, S) == [rec \in S \cap BagToSet(table) |-> CopiesIn(rec, table)]

\* SELECT COUNT(*) AS CNT FROM RECONCILIATION WHERE ...
CountIdentity(table, ord, mat) ==
  BagCardinality(SubBagWhere(table, {rec \in BagToSet(table) : WhereIdentity(rec, ord, mat)}))

\* SELECT BATCHNUMBER FROM RECONCILIATION WHERE ...: the rows, as a bag of records
SelectIdentity(table, ord, mat) ==
  SubBagWhere(table, {rec \in BagToSet(table) : WhereIdentity(rec, ord, mat)})

(***************************************************************************)
(* Ordering of ORDER BY: binary order of the characters, a shorter text    *)
(* before its extensions, NULL last.                                       *)
(***************************************************************************)
Alphabet == <<" ", "-", ".", "0", "1", "2", "3", "4", "5", "6", "7", "8", "9",
              "A", "B", "M", "O", "S", "x">>
CharRank(c) == CHOOSE k \in 1..Len(Alphabet) : Alphabet[k] = c

RECURSIVE TextLess(_, _)
TextLess(x, y) ==
  IF y = <<>> THEN FALSE
  ELSE IF x = <<>> THEN TRUE
  ELSE IF Head(x) = Head(y) THEN TextLess(Tail(x), Tail(y))
  ELSE CharRank(Head(x)) < CharRank(Head(y))

\* a < b in an ascending ORDER BY (NULLS LAST)
SqlLess(a, b) ==
  IF IsNull(a) THEN FALSE
  ELSE IF IsNull(b) THEN TRUE
  ELSE TextLess(ToText(a), ToText(b))

RECURSIVE KeyLess(_, _)
KeyLess(k1, k2) ==
  IF k1 = <<>> THEN FALSE
  ELSE IF Head(k1) = Head(k2) THEN KeyLess(Tail(k1), Tail(k2))
  ELSE SqlLess(Head(k1), Head(k2))

\* variant: ORDER BY BATCHNUMBER, ORDERNUMBER, MATERIAL_NUMBER, STATUS
OrderKeyBatchFirst(r) == <<r.BATCHNUMBER, r.ORDERNUMBER, r.MATERIAL_NUMBER, r.STATUS>>

\* ORDER BY ORDERNUMBER, MATERIAL_NUMBER, BATCHNUMBER, STATUS
OrderKey(r) == <<r.ORDERNUMBER, r.MATERIAL_NUMBER, r.BATCHNUMBER, r.STATUS>>

RECURSIVE SeqToBag(_)
SeqToBag(sq) == IF sq = <<>> THEN EmptyBag ELSE SetToBag({Head(sq)}) (+) SeqToBag(Tail(sq))

RECURSIVE Repeat(_, _)
Repeat(x, n) == IF n = 0 THEN <<>> ELSE <<x>> \o Repeat(x, n - 1)

\* the rows of a bag in ascending key order (rows with equal keys are equal rows)
RECURSIVE OrderBy(_)
OrderBy(rows) ==
  IF BagToSet(rows) = {} THEN <<>>
  ELSE LET S == BagToSet(rows)
           first == CHOOSE r \in S : \A q \in S : ~KeyLess(OrderKey(q), OrderKey(r))
           rest == [r \in S \ {first} |-> rows[r]]
       IN Repeat(first, rows[first]) \o OrderBy(rest)

\* no row of the sequence comes before a row of a smaller key
IsOrdered(sq) ==
  \A i, j \in 1..Len(sq) : i < j => ~KeyLess(OrderKey(sq[j]), OrderKey(sq[i]))

\* every sequence an ORDER BY may return for the rows of sq: the order of
\* rows with equal keys is not defined
OrderByResults(sq) ==
  {out \in {[i \in 1..Len(sq) |-> sq[p[i]]] : p \in Permutations(1..Len(sq))} :
     IsOrdered(out)}

(***************************************************************************)
(* checkTrueDuplicates: the query                                          *)
(***************************************************************************)
\* PARTITION BY ORDERNUMBER, MATERIAL_NUMBER (NULLs fall in one partition)
Partition(table, rec) ==
  SubBagWhere(table, {q \in BagToSet(table) :
                        q.ORDERNUMBER = rec.ORDERNUMBER /\ q.MATERIAL_NUMBER = rec.MATERIAL_NUMBER})

\* COUNT(*) OVER (PARTITION BY ...)
PotentialDuplicateCount(table, rec) == BagCardinality(Partition(table, rec))

\* variant: COUNT(BATCHNUMBER), without DISTINCT
BatchCount(table, rec) ==
  BagCardinality(SubBagWhere(Partition(table, rec),
                             {q \in BagToSet(Partition(table, rec)) : ~IsNull(q.BATCHNUMBER)}))

\* COUNT(DISTINCT BATCHNUMBER) OVER (PARTITION BY ...): COUNT skips NULLs
DistinctBatchCount(table, rec) ==
  Cardinality({q.BATCHNUMBER : q \in BagToSet(Partition(table, rec))} \ {Null})

\* variant: the SELECT list also names a column that is not in the ORDER BY
TrueDuplicateRowWide(table, rec) ==
  [ORDERNUMBER |-> rec.ORDERNUMBER, MATERIAL_NUMBER |-> rec.MATERIAL_NUMBER,
   BATCHNUMBER |-> rec.BATCHNUMBER, STATUS |-> rec.STATUS,
   DUPLICATECOUNT |-> PotentialDuplicateCount(table, rec),
   SALESDOCUMENT |-> rec.SALESDOCUMENT]

\* SELECT ORDERNUMBER, MATERIAL_NUMBER, BATCHNUMBER, STATUS, ... AS DUPLICATECOUNT
TrueDuplicateRow(table, rec) ==
  [ORDERNUMBER |-> rec.ORDERNUMBER, MATERIAL_NUMBER |-> rec.MATERIAL_NUMBER,
   BATCHNUMBER |-> rec.BATCHNUMBER, STATUS |-> rec.STATUS,
   DUPLICATECOUNT |-> PotentialDuplicateCount(table, rec)]

\* the result rows of the records in S, each as often as its record is stored
RECURSIVE ProjectRows(_, _)
ProjectRows(table, S) ==
  IF S = {} THEN EmptyBag
  ELSE LET rec == CHOOSE y \in S : TRUE
       IN [r \in {TrueDuplicateRow(table, rec)} |-> CopiesIn(rec, table)]
            (+) ProjectRows(table, S \ {rec})

\* variant: more than two records and batch numbers
TrueDuplicatesQueryOverTwo(table) ==
  LET hits == {rec \in BagToSet(table) :
                 /\ PotentialDuplicateCount(table, rec) > 2
                 /\ DistinctBatchCount(table, rec) > 2}
  IN OrderBy(ProjectRows(table, hits))

TrueDuplicatesQuery(table) ==
  LET hits == {rec \in BagToSet(table) :
                 /\ PotentialDuplicateCount(table, rec) > 1
                 /\ DistinctBatchCount(table, rec) > 1}
  IN OrderBy(ProjectRows(table, hits))

\* result.rows: any of the sequences the ORDER BY may return
TrueDuplicatesResults(table) == OrderByResults(TrueDuplicatesQuery(table))

(***************************************************************************)
(* State                                                                   *)
(***************************************************************************)
VARIABLES
  store,        \* the RECONCILIATION table
  req,          \* the requests being served, one record per slot
  exports,      \* exports/: the content of each report file
  connsInUse,   \* connections of the pool that are checked out
  uploads       \* sheets uploaded so far

vars == <<store, req, exports, connsInUse, uploads>>

\* request slots: uploads are served in the first two, scans in any
Reqs == {1, 2, 3}
UploadSlots == {1, 2}

\* bounds of the model
MaxRows == 2
MaxUploads == 2
MaxStored == 2
MaxScanned == 3
MaxOrdered == 4
MaxEdited == 4

\* poolMax
PoolMax == 10

\* a field of a CSV line: the empty text for undefined and null, String(value)
\* for everything else
CsvField(v) == IF IsUndef(v) \/ IsNull(v) THEN <<>> ELSE ToText(v)

\* header: Object.keys(duplicateList[0]) gives the columns of the file
CsvHeader(records) == DOMAIN records[1]

\* the line writeRecords writes for one record: its fields under the header
CsvLine(header, record) == [c \in header |-> CsvField(Cell(record, c))]

\* a report file of exports/: absent, or the header and the lines that
\* createCsvWriter(...).writeRecords(records) wrote to it
NoFile == [exists |-> FALSE, header |-> {}, records |-> <<>>]
ReportFile(records) ==
  [exists |-> TRUE, header |-> CsvHeader(records),
   records |-> [k \in 1..Len(records) |-> CsvLine(CsvHeader(records), records[k])]]

\* what a caller got from a download route: nothing yet, the file, or 404
NoDownload == [status |-> 0, file |-> NoFile]

\* A response body.  n is the count the message states and row a row index the
\* body states, each -1 when the body states none.
NoResponse ==
  [status |-> 0, success |-> FALSE, message |-> "", n |-> -1, row |-> -1,
   invalidRows |-> <<>>, duplicates |-> <<>>, data |-> <<>>, missingColumns |-> <<>>]

Response(status, success, message) ==
  [NoResponse EXCEPT !.status = status, !.success = success, !.message = message]

Idle ==
  [handler |-> "none", pc |-> "idle", jsonData |-> <<>>, invalidRows |-> <<>>,
   duplicateList |-> <<>>, i |-> 0, insertedCount |-> 0, conn |-> FALSE,
   file |-> "none", res |-> NoResponse,
   \* history of the request, read by the properties only
   calls |-> 0, inserts |-> <<>>, error |-> "none", failedRow |-> 0,
   \* what the caller of the request got when following its downloadUrl
   download |-> NoDownload,
   \* req.params and req.body of an edit or a delete
   params |-> [ordernumber |-> Undef],
   body |-> [salesDocument |-> Undef, hasData |-> FALSE, updated_data |-> <<>>],
   \* history: the records the WHERE clause of the statement matched
   matched |-> {}]

Init ==
  /\ store = EmptyBag
  /\ req = [r \in Reqs |-> Idle]
  /\ exports = [duplicates_report |-> NoFile, asof_check_duplicates |-> NoFile]
  /\ connsInUse = 0
  /\ uploads = 0

\* a new request is served in the lowest free slot
CanReceive(r) ==
  /\ req[r].pc = "idle"
  /\ \A q \in Reqs : q < r => req[q].pc # "idle"

CanUpload(r) == CanReceive(r) /\ uploads < MaxUploads

Set(r, rec) == req' = [req EXCEPT ![r] = rec]

(***************************************************************************)
(* addReconciliation                                                       *)
(***************************************************************************)
requiredColumns == <<"ORDERNUMBER">>

IsMissing(jsonData, col) == col \notin DOMAIN jsonData[1]

\* variant: the column check is left out
MissingColumnsUnchecked(jsonData) == <<>>

\* requiredColumns.filter(col => !Object.keys(jsonData[0]).includes(col))
MissingColumns(jsonData) ==
  LET Miss(col) == IsMissing(jsonData, col) IN SelectSeq(requiredColumns, Miss)

InvalidEntry(index, error, ordernumber, column, raw) ==
  [row |-> index, error |-> error, ORDERNUMBER |-> ordernumber, column |-> column, raw |-> raw]

\* variant: the callback checks the two numeric columns only
RowProblemsNumericOnly(row, index) ==
  LET ordernumber == safeValue(Cell(row, "ORDERNUMBER"))
      salesdocumentRaw == Cell(row, "SALESDOCUMENT")
      yearRaw == Cell(row, "YEAR")
  IN (IF IsNull(safeNumber(salesdocumentRaw)) /\ ~IsUndef(salesdocumentRaw)
         THEN <<InvalidEntry(index, "", ordernumber, "SALESDOCUMENT", salesdocumentRaw)>>
         ELSE <<>>)
     \o (IF IsNull(safeNumber(yearRaw)) /\ ~IsUndef(yearRaw)
         THEN <<InvalidEntry(index, "", ordernumber, "YEAR", yearRaw)>> ELSE <<>>)

\* what the forEach callback pushes for one row
RowProblems(row, index) ==
  LET ordernumber == safeValue(Cell(row, "ORDERNUMBER"))
      salesdocumentRaw == Cell(row, "SALESDOCUMENT")
      yearRaw == Cell(row, "YEAR")
      salesdocument == safeNumber(salesdocumentRaw)
      year == safeNumber(yearRaw)
  IN (IF Falsy(ordernumber)
         THEN <<InvalidEntry(index, "ORDERNUMBER is required", Undef, "", Undef)>> ELSE <<>>)
     \o (IF IsNull(salesdocument) /\ ~IsUndef(salesdocumentRaw)
         THEN <<InvalidEntry(index, "", ordernumber, "SALESDOCUMENT", salesdocumentRaw)>>
         ELSE <<>>)
     \o (IF IsNull(year) /\ ~IsUndef(yearRaw)
         THEN <<InvalidEntry(index, "", ordernumber, "YEAR", yearRaw)>> ELSE <<>>)

RECURSIVE CollectInvalid(_, _)
CollectInvalid(jsonData, n) ==
  IF n = 0 THEN <<>> ELSE CollectInvalid(jsonData, n - 1) \o RowProblems(jsonData[n], n)

\* variant: stops at the first row that has a problem
RECURSIVE CollectUntilInvalid(_, _)
CollectUntilInvalid(jsonData, k) ==
  IF k > Len(jsonData) THEN <<>>
  ELSE IF RowProblems(jsonData[k], k) # <<>> THEN RowProblems(jsonData[k], k)
  ELSE CollectUntilInvalid(jsonData, k + 1)

ValidateUntilFirstInvalid(jsonData) == CollectUntilInvalid(jsonData, 1)

\* variant: stops after the first row
ValidateFirstRowOnly(jsonData) == RowProblems(jsonData[1], 1)

\* the validation loop over the whole sheet
ValidateRows(jsonData) == CollectInvalid(jsonData, Len(jsonData))

\* variant: the error response states the count and the failing row
CatchReporting(q, errorNum, what) ==
  [q EXCEPT !.pc = "done",
            !.file = IF q.file = "none" THEN "none" ELSE "deleted",
            !.res = [Response(500, FALSE, "Internal server error.")
                       EXCEPT !.n = q.insertedCount, !.row = q.i],
            !.error = what,
            !.failedRow = IF what \in {"lookup", "insert"} THEN q.i ELSE 0]

\* the catch block: release the temp file, answer by error number
Catch(q, errorNum, what) ==
  [q EXCEPT !.pc = "done",
            !.file = IF q.file = "none" THEN "none" ELSE "deleted",
            !.res = IF errorNum = 1722
                    THEN Response(400, FALSE, "Invalid numeric data in SALESDOCUMENT or YEAR column.")
                    ELSE Response(500, FALSE, "Internal server error."),
            !.error = what,
            !.failedRow = IF what \in {"lookup", "insert"} THEN q.i ELSE 0]

\* the request arrives; everything up to the first store call
AddReceive(r, hasFile, readable, jsonData) ==
  /\ CanUpload(r)
  /\ uploads' = uploads + 1
  /\ LET q == [Idle EXCEPT !.handler = "addReconciliation",
                           !.file = IF hasFile THEN "present" ELSE "none"]
         invalidRows == ValidateRows(jsonData)
     IN Set(r,
          IF ~hasFile
            THEN [q EXCEPT !.pc = "done", !.res = Response(400, FALSE, "No file uploaded.")]
          ELSE IF ~readable THEN Catch(q, 0, "readFile")
          ELSE IF Len(jsonData) = 0
            THEN [q EXCEPT !.pc = "done", !.file = "deleted",
                           !.res = Response(400, FALSE, "Uploaded file is empty.")]
          ELSE IF Len(MissingColumns(jsonData)) > 0
            THEN [q EXCEPT !.pc = "done", !.file = "deleted", !.jsonData = jsonData,
                           !.res = [Response(400, FALSE, "Missing required column in Excel file")
                                      EXCEPT !.missingColumns = MissingColumns(jsonData)]]
          ELSE IF Len(invalidRows) > 0
            THEN [q EXCEPT !.pc = "done", !.file = "deleted", !.jsonData = jsonData,
                           !.invalidRows = invalidRows,
                           !.res = [Response(400, FALSE, "rows with invalid data. Upload rejected.")
                                      EXCEPT !.n = Len(invalidRows),
                                             !.invalidRows = invalidRows]]
          ELSE [q EXCEPT !.pc = "getConnection", !.jsonData = jsonData])
  /\ UNCHANGED <<store, exports, connsInUse>>

AddGetConnection(r) ==
  /\ req[r].handler = "addReconciliation" /\ req[r].pc = "getConnection"
  /\ connsInUse < PoolMax
  /\ connsInUse' = connsInUse + 1
  /\ Set(r, [req[r] EXCEPT !.pc = "check", !.conn = TRUE, !.i = 1])
  /\ UNCHANGED <<store, exports, uploads>>

AddGetConnectionFail(r) ==
  /\ req[r].handler = "addReconciliation" /\ req[r].pc = "getConnection"
  /\ Set(r, Catch(req[r], 0, "getConnection"))
  /\ UNCHANGED <<store, exports, connsInUse, uploads>>

\* if (!order || !material) continue
SkipsLookup(row) == Falsy(Cell(row, "ORDERNUMBER")) \/ Falsy(Cell(row, "MATERIAL_NUMBER"))

\* check.rows[0].CNT > 0
IsStoredIdentity(table, row) ==
  CountIdentity(table, Cell(row, "ORDERNUMBER"), Cell(row, "MATERIAL_NUMBER")) > 0

\* { ORDERNUMBER: order, MATERIAL_NUMBER: material, ...row }
DuplicateEntry(row) ==
  [c \in DOMAIN row \cup {"ORDERNUMBER", "MATERIAL_NUMBER"} |-> Cell(row, c)]

\* variant: commits the rows that were not flagged
AfterCheckPartial(q) ==
  IF q.i <= Len(q.jsonData) THEN q
  ELSE IF Len(q.duplicateList) = Len(q.jsonData) THEN [q EXCEPT !.pc = "report"]
  ELSE [q EXCEPT !.pc = "insert", !.i = 1]

AfterCheck(q) ==
  IF q.i <= Len(q.jsonData) THEN q
  ELSE IF Len(q.duplicateList) > 0 THEN [q EXCEPT !.pc = "report"]
  ELSE [q EXCEPT !.pc = "insert", !.i = 1]

\* variant: a row is also checked against the earlier rows of its sheet
AddCheckRowAgainstBatch(r) ==
  /\ req[r].handler = "addReconciliation" /\ req[r].pc = "check"
  /\ LET q == req[r]
         row == q.jsonData[q.i]
         inBatch == \E j \in 1..(q.i - 1) :
                      /\ Cell(q.jsonData[j], "ORDERNUMBER") = Cell(row, "ORDERNUMBER")
                      /\ Cell(q.jsonData[j], "MATERIAL_NUMBER") = Cell(row, "MATERIAL_NUMBER")
     IN Set(r, AfterCheck(
          IF SkipsLookup(row) THEN [q EXCEPT !.i = q.i + 1]
          ELSE [q EXCEPT !.i = q.i + 1, !.calls = q.calls + 1,
                         !.duplicateList =
                            IF IsStoredIdentity(store, row) \/ inBatch
                            THEN Append(q.duplicateList, DuplicateEntry(row))
                            ELSE q.duplicateList]))
  /\ UNCHANGED <<store, exports, connsInUse, uploads>>

\* one turn of the duplicate-check loop
AddCheckRow(r) ==
  /\ req[r].handler = "addReconciliation" /\ req[r].pc = "check"
  /\ LET q == req[r]
         row == q.jsonData[q.i]
     IN Set(r, AfterCheck(
          IF SkipsLookup(row) THEN [q EXCEPT !.i = q.i + 1]
          ELSE [q EXCEPT !.i = q.i + 1, !.calls = q.calls + 1,
                         !.duplicateList =
                            IF IsStoredIdentity(store, row)
                            THEN Append(q.duplicateList, DuplicateEntry(row))
                            ELSE q.duplicateList]))
  /\ UNCHANGED <<store, exports, connsInUse, uploads>>

\* the lookup throws
AddCheckFail(r, errorNum) ==
  /\ req[r].handler = "addReconciliation" /\ req[r].pc = "check"
  /\ ~SkipsLookup(req[r].jsonData[req[r].i])
  /\ Set(r, Catch([req[r] EXCEPT !.calls = req[r].calls + 1], errorNum, "lookup"))
  /\ UNCHANGED <<store, exports, connsInUse, uploads>>

\* duplicates found: write the report, release, answer 409
AddReportDuplicates(r) ==
  /\ req[r].handler = "addReconciliation" /\ req[r].pc = "report"
  /\ exports' = [exports EXCEPT !.duplicates_report = ReportFile(req[r].duplicateList)]
  /\ connsInUse' = connsInUse - 1
  /\ Set(r, [req[r] EXCEPT !.pc = "done", !.conn = FALSE, !.file = "deleted",
                           !.res = [Response(409, FALSE, "duplicate entries.")
                                      EXCEPT !.n = Len(req[r].duplicateList),
                                             !.duplicates = req[r].duplicateList]])
  /\ UNCHANGED <<store, uploads>>

AddReportFail(r) ==
  /\ req[r].handler = "addReconciliation" /\ req[r].pc = "report"
  /\ Set(r, Catch(req[r], 0, "writeRecords"))
  /\ UNCHANGED <<store, exports, connsInUse, uploads>>

AfterInsert(q) == IF q.i <= Len(q.jsonData) THEN q ELSE [q EXCEPT !.pc = "finish"]

\* variant: the insert loop skips the rows the duplicate check skipped
AddInsertRowSkipping(r) ==
  /\ req[r].handler = "addReconciliation" /\ req[r].pc = "insert"
  /\ LET q == req[r]
         rec == InsertBinds(q.jsonData[q.i])
     IN IF SkipsLookup(q.jsonData[q.i])
        THEN /\ store' = store
             /\ Set(r, AfterInsert([q EXCEPT !.i = q.i + 1]))
        ELSE /\ store' = store (+) SetToBag({rec})
             /\ Set(r, AfterInsert([q EXCEPT !.i = q.i + 1, !.calls = q.calls + 1,
                                             !.insertedCount = q.insertedCount + 1,
                                             !.inserts = Append(q.inserts, rec)]))
  /\ UNCHANGED <<exports, connsInUse, uploads>>

\* one turn of the insert loop (autoCommit)
AddInsertRow(r) ==
  /\ req[r].handler = "addReconciliation" /\ req[r].pc = "insert"
  /\ LET q == req[r]
         rec == InsertBinds(q.jsonData[q.i])
     IN /\ store' = store (+) SetToBag({rec})
        /\ Set(r, AfterInsert([q EXCEPT !.i = q.i + 1, !.calls = q.calls + 1,
                                        !.insertedCount = q.insertedCount + 1,
                                        !.inserts = Append(q.inserts, rec)]))
  /\ UNCHANGED <<exports, connsInUse, uploads>>

\* variant: a failed INSERT rolls the batch back
AddInsertFailRollback(r, errorNum) ==
  /\ req[r].handler = "addReconciliation" /\ req[r].pc = "insert"
  /\ store' = store (-) SeqToBag(req[r].inserts)
  /\ Set(r, Catch([req[r] EXCEPT !.calls = req[r].calls + 1], errorNum, "insert"))
  /\ UNCHANGED <<exports, connsInUse, uploads>>

\* the INSERT throws
AddInsertFail(r, errorNum) ==
  /\ req[r].handler = "addReconciliation" /\ req[r].pc = "insert"
  /\ Set(r, Catch([req[r] EXCEPT !.calls = req[r].calls + 1], errorNum, "insert"))
  /\ UNCHANGED <<store, exports, connsInUse, uploads>>

AddFinish(r) ==
  /\ req[r].handler = "addReconciliation" /\ req[r].pc = "finish"
  /\ connsInUse' = connsInUse - 1
  /\ Set(r, [req[r] EXCEPT !.pc = "done", !.conn = FALSE, !.file = "deleted",
                           !.res = [Response(200, TRUE, "record(s) inserted.")
                                      EXCEPT !.n = req[r].insertedCount]])
  /\ UNCHANGED <<store, exports, uploads>>

(***************************************************************************)
(* Rejections outside a try block                                          *)
(***************************************************************************)
\* a rejection outside the try leaves the handler as a rejected promise:
\* nothing of the handler answers the request and nothing releases the temp file
Unhandled(q, what) == [q EXCEPT !.pc = "done", !.error = what]

\* the same rejection under a router that passes rejected promises on: the
\* application has no error middleware, the default one answers 500
Forwarded(q, what) ==
  [q EXCEPT !.pc = "done", !.error = what, !.res = Response(500, FALSE, "")]

\* what the build can make of a rejection outside the try
Rejections(q, what) == {Unhandled(q, what), Forwarded(q, what)}

(***************************************************************************)
(* downloadDuplicateReport, downloadAsOfDuplicateReport                    *)
(***************************************************************************)
\* fs.access(filePath), then res.download(filePath), else 404
Download(file) ==
  IF file.exists THEN [status |-> 200, file |-> file] ELSE [status |-> 404, file |-> NoFile]

\* the caller of add upload r follows /reconciliation/download-duplicate-report
downloadDuplicateReport(r) ==
  /\ req[r].handler = "addReconciliation" /\ req[r].pc = "done"
  /\ req[r].download = NoDownload
  /\ Set(r, [req[r] EXCEPT !.download = Download(exports.duplicates_report)])
  /\ UNCHANGED <<store, exports, connsInUse, uploads>>

\* the caller of as-of check r follows /reconciliation/asof-duplicate-report
downloadAsOfDuplicateReport(r) ==
  /\ req[r].handler = "checkAsOfDuplicates" /\ req[r].pc = "done"
  /\ req[r].download = NoDownload
  /\ Set(r, [req[r] EXCEPT !.download = Download(exports.asof_check_duplicates)])
  /\ UNCHANGED <<store, exports, connsInUse, uploads>>

(***************************************************************************)
(* editReconciliation                                                      *)
(***************************************************************************)
\* WHERE ordernumber = :ordernumber
WhereOrder(table, ordernumber) ==
  {rec \in BagToSet(table) : SqlEq(rec.ORDERNUMBER, ordernumber)}

\* the columns of the SET clause and their bind values; an undefined bind is
\* bound as NULL
SetBinds(body) ==
  [SALESDOCUMENT |-> SqlValue(body.salesDocument),
   BATCHNUMBER |-> Varchar(SqlValue(Cell(body.updated_data, "BATCHNUMBER"))),
   YEAR |-> SqlValue(Cell(body.updated_data, "YEAR")),
   MATERIAL_NUMBER |-> Varchar(SqlValue(Cell(body.updated_data, "MATERIAL_NUMBER"))),
   STATUS |-> Varchar(SqlValue(Cell(body.updated_data, "STATUS")))]

Updated(rec, binds) ==
  [rec EXCEPT !.SALESDOCUMENT = binds.SALESDOCUMENT, !.BATCHNUMBER = binds.BATCHNUMBER,
              !.YEAR = binds.YEAR, !.MATERIAL_NUMBER = binds.MATERIAL_NUMBER,
              !.STATUS = binds.STATUS]

\* the table with n more copies of rec
WithCopies(table, rec, n) == IF n = 0 THEN table ELSE table (+) [x \in {rec} |-> n]

\* the table after the records of S have been updated, each copy of them
RECURSIVE UpdateRows(_, _, _)
UpdateRows(table, S, binds) ==
  IF S = {} THEN EmptyBag
  ELSE LET rec == CHOOSE y \in S : TRUE
       IN WithCopies(UpdateRows(table, S \ {rec}, binds), Updated(rec, binds),
                     CopiesIn(rec, table))

\* variant: the statement updates one of the records it matches
UpdateFirstRecord(table, ordernumber, binds) ==
  LET S == WhereOrder(table, ordernumber)
  IN IF S = {} THEN table
     ELSE LET rec == CHOOSE y \in S : TRUE
          IN (table (-) SetToBag({rec})) (+) SetToBag({Updated(rec, binds)})

\* UPDATE reconciliation SET ... WHERE ordernumber = :ordernumber
UpdateReconciliation(table, ordernumber, binds) ==
  LET S == WhereOrder(table, ordernumber)
  IN SubBagWhere(table, BagToSet(table) \ S) (+) UpdateRows(table, S, binds)

EditReceive(r, ordernumber, salesDocument, hasData, updated_data) ==
  /\ req[r].pc = "idle"
  /\ Set(r, [Idle EXCEPT !.handler = "editReconciliation", !.pc = "getConnection",
                         !.params = [ordernumber |-> ordernumber],
                         !.body = [salesDocument |-> salesDocument, hasData |-> hasData,
                                   updated_data |-> updated_data]])
  /\ UNCHANGED <<store, exports, connsInUse, uploads>>

EditGetConnection(r) ==
  /\ req[r].handler = "editReconciliation" /\ req[r].pc = "getConnection"
  /\ connsInUse < PoolMax
  /\ connsInUse' = connsInUse + 1
  /\ Set(r, [req[r] EXCEPT !.pc = "execute", !.conn = TRUE])
  /\ UNCHANGED <<store, exports, uploads>>

\* getConnection rejects inside the try: catch answers, connection is unset
EditGetConnectionFail(r) ==
  /\ req[r].handler = "editReconciliation" /\ req[r].pc = "getConnection"
  /\ Set(r, [req[r] EXCEPT !.pc = "done", !.error = "getConnection",
                           !.res = Response(500, FALSE, "Update failed, check backend logs.")])
  /\ UNCHANGED <<store, exports, connsInUse, uploads>>

\* the UPDATE (autoCommit), the answer, and the close of the finally block; a
\* body without updated_data throws on updated_data.ORDERDATE
EditExecute(r) ==
  /\ req[r].handler = "editReconciliation" /\ req[r].pc = "execute"
  /\ connsInUse' = connsInUse - 1
  /\ IF req[r].body.hasData
     THEN /\ store' = UpdateReconciliation(store, req[r].params.ordernumber, SetBinds(req[r].body))
          /\ Set(r, [req[r] EXCEPT !.pc = "done", !.conn = FALSE, !.calls = 1,
                                   !.matched = WhereOrder(store, req[r].params.ordernumber),
                                   !.res = Response(200, TRUE, "Record updated successfully.")])
     ELSE /\ store' = store
          /\ Set(r, [req[r] EXCEPT !.pc = "done", !.conn = FALSE, !.error = "TypeError",
                                   !.res = Response(500, FALSE, "Update failed, check backend logs.")])
  /\ UNCHANGED <<exports, uploads>>

\* the UPDATE throws
EditExecuteFail(r) ==
  /\ req[r].handler = "editReconciliation" /\ req[r].pc = "execute"
  /\ req[r].body.hasData
  /\ connsInUse' = connsInUse - 1
  /\ Set(r, [req[r] EXCEPT !.pc = "done", !.conn = FALSE, !.calls = 1, !.error = "execute",
                           !.res = Response(500, FALSE, "Update failed, check backend logs.")])
  /\ UNCHANGED <<store, exports, uploads>>

(***************************************************************************)
(* deleteReconciliation                                                    *)
(***************************************************************************)
\* DELETE FROM reconciliation WHERE ordernumber = :ordernumber
DeleteWhereOrder(table, ordernumber) ==
  SubBagWhere(table, BagToSet(table) \ WhereOrder(table, ordernumber))

DeleteReceive(r, ordernumber) ==
  /\ req[r].pc = "idle"
  /\ Set(r, [Idle EXCEPT !.handler = "deleteReconciliation", !.pc = "getConnection",
                         !.params = [ordernumber |-> ordernumber]])
  /\ UNCHANGED <<store, exports, connsInUse, uploads>>

DeleteGetConnection(r) ==
  /\ req[r].handler = "deleteReconciliation" /\ req[r].pc = "getConnection"
  /\ connsInUse < PoolMax
  /\ connsInUse' = connsInUse + 1
  /\ Set(r, [req[r] EXCEPT !.pc = "execute", !.conn = TRUE])
  /\ UNCHANGED <<store, exports, uploads>>

\* getConnection rejects outside the try
DeleteGetConnectionFail(r) ==
  /\ req[r].handler = "deleteReconciliation" /\ req[r].pc = "getConnection"
  /\ \E out \in Rejections(req[r], "getConnection") : Set(r, out)
  /\ UNCHANGED <<store, exports, connsInUse, uploads>>

\* the DELETE (autoCommit), the answer, and the close of the finally block
DeleteExecute(r) ==
  /\ req[r].handler = "deleteReconciliation" /\ req[r].pc = "execute"
  /\ connsInUse' = connsInUse - 1
  /\ store' = DeleteWhereOrder(store, req[r].params.ordernumber)
  /\ Set(r, [req[r] EXCEPT !.pc = "done", !.conn = FALSE, !.calls = 1,
                           !.matched = WhereOrder(store, req[r].params.ordernumber),
                           !.res = Response(200, TRUE, "Record deleted.")])
  /\ UNCHANGED <<exports, uploads>>

\* the DELETE throws
DeleteExecuteFail(r) ==
  /\ req[r].handler = "deleteReconciliation" /\ req[r].pc = "execute"
  /\ connsInUse' = connsInUse - 1
  /\ Set(r, [req[r] EXCEPT !.pc = "done", !.conn = FALSE, !.calls = 1, !.error = "execute",
                           !.res = Response(500, FALSE, "Delete failed")])
  /\ UNCHANGED <<store, exports, uploads>>

(***************************************************************************)
(* checkTrueDuplicates                                                     *)
(***************************************************************************)
ScanReceive(r) ==
  /\ CanReceive(r)
  /\ Set(r, [Idle EXCEPT !.handler = "checkTrueDuplicates", !.pc = "getConnection"])
  /\ UNCHANGED <<store, exports, connsInUse, uploads>>

ScanGetConnection(r) ==
  /\ req[r].handler = "checkTrueDuplicates" /\ req[r].pc = "getConnection"
  /\ connsInUse < PoolMax
  /\ connsInUse' = connsInUse + 1
  /\ Set(r, [req[r] EXCEPT !.pc = "execute", !.conn = TRUE])
  /\ UNCHANGED <<store, exports, uploads>>

\* getConnection rejects outside the try
ScanGetConnectionFail(r) ==
  /\ req[r].handler = "checkTrueDuplicates" /\ req[r].pc = "getConnection"
  /\ \E out \in Rejections(req[r], "getConnection") : Set(r, out)
  /\ UNCHANGED <<store, exports, connsInUse, uploads>>

ScanExecute(r) ==
  /\ req[r].handler = "checkTrueDuplicates" /\ req[r].pc = "execute"
  /\ connsInUse' = connsInUse - 1
  /\ \E rows \in TrueDuplicatesResults(store) :
       Set(r, [req[r] EXCEPT !.pc = "done", !.conn = FALSE, !.calls = 1,
                              !.res = [Response(200, TRUE, "") EXCEPT !.data = rows]])
  /\ UNCHANGED <<store, exports, uploads>>

ScanExecuteFail(r) ==
  /\ req[r].handler = "checkTrueDuplicates" /\ req[r].pc = "execute"
  /\ connsInUse' = connsInUse - 1
  /\ Set(r, [req[r] EXCEPT !.pc = "done", !.conn = FALSE, !.calls = 1, !.error = "execute",
                           !.res = Response(500, FALSE, "Failed to run duplicate query.")])
  /\ UNCHANGED <<store, exports, uploads>>

\* the response has gone out; the slot serves the next request
Forget(r) ==
  /\ req[r].pc = "done"
  /\ Set(r, Idle)
  /\ UNCHANGED <<store, exports, connsInUse, uploads>>

(***************************************************************************)
(* checkAsOfDuplicates                                                     *)
(***************************************************************************)
\* readFile (442) and getConnection (446) are outside the try
AsOfReceive(r, hasFile, readable, rows) ==
  /\ CanUpload(r)
  /\ uploads' = uploads + 1
  /\ LET q == [Idle EXCEPT !.handler = "checkAsOfDuplicates",
                           !.file = IF hasFile THEN "present" ELSE "none"]
     IN \E out \in
          (IF ~hasFile
             THEN {[q EXCEPT !.pc = "done", !.res = Response(400, FALSE, "No file uploaded.")]}
           ELSE IF ~readable THEN Rejections(q, "readFile")
           ELSE {[q EXCEPT !.pc = "getConnection", !.jsonData = rows]}) : Set(r, out)
  /\ UNCHANGED <<store, exports, connsInUse>>

AfterAsOfCheck(q) ==
  IF q.i <= Len(q.jsonData) THEN q
  ELSE IF Len(q.duplicateList) > 0 THEN [q EXCEPT !.pc = "report"]
  ELSE [q EXCEPT !.pc = "finish"]

AsOfGetConnection(r) ==
  /\ req[r].handler = "checkAsOfDuplicates" /\ req[r].pc = "getConnection"
  /\ connsInUse < PoolMax
  /\ connsInUse' = connsInUse + 1
  /\ Set(r, AfterAsOfCheck([req[r] EXCEPT !.pc = "check", !.conn = TRUE, !.i = 1]))
  /\ UNCHANGED <<store, exports, uploads>>

AsOfGetConnectionFail(r) ==
  /\ req[r].handler = "checkAsOfDuplicates" /\ req[r].pc = "getConnection"
  /\ \E out \in Rejections(req[r], "getConnection") : Set(r, out)
  /\ UNCHANGED <<store, exports, connsInUse, uploads>>

AsOfOrder(row) == OptTrim(Cell(row, "Order ID"))
AsOfMaterial(row) == OptTrim(Cell(row, "Material"))
AsOfBatch(row) == OrNull(OptTrim(Cell(row, "BATCHNUMBER")))

AsOfSkips(row) == Falsy(AsOfOrder(row)) \/ Falsy(AsOfMaterial(row))

\* variant: the stored batch numbers as they are
DbBatchesUntrimmed(rows) ==
  {IF IsNull(rec.BATCHNUMBER) THEN Undef ELSE rec.BATCHNUMBER : rec \in BagToSet(rows)}

\* dbResult.rows.map(r => r.BATCHNUMBER?.toString()?.trim())
DbBatches(rows) == {OptTrim(rec.BATCHNUMBER) : rec \in BagToSet(rows)}

\* dbResult.rows.length > 0 && !dbBatches.includes(batch)
IsAsOfDuplicate(table, row) ==
  LET rows == SelectIdentity(table, AsOfOrder(row), AsOfMaterial(row))
  IN BagCardinality(rows) > 0 /\ AsOfBatch(row) \notin DbBatches(rows)

\* { ORDERNUMBER: ordernumber, MATERIAL_NUMBER: material, BATCHNUMBER: batch, ...row }
AsOfEntry(row) ==
  [c \in DOMAIN row \cup {"ORDERNUMBER", "MATERIAL_NUMBER", "BATCHNUMBER"} |->
     IF c \in DOMAIN row THEN row[c]
     ELSE IF c = "ORDERNUMBER" THEN AsOfOrder(row)
     ELSE IF c = "MATERIAL_NUMBER" THEN AsOfMaterial(row)
     ELSE AsOfBatch(row)]

\* variant: a flagged row is also written to the table
AsOfCheckRowRecording(r) ==
  /\ req[r].handler = "checkAsOfDuplicates" /\ req[r].pc = "check"
  /\ LET q == req[r]
         row == q.jsonData[q.i]
         flagged == ~AsOfSkips(row) /\ IsAsOfDuplicate(store, row)
     IN /\ Set(r, AfterAsOfCheck(
             IF AsOfSkips(row) THEN [q EXCEPT !.i = q.i + 1]
             ELSE [q EXCEPT !.i = q.i + 1, !.calls = q.calls + 1,
                            !.duplicateList =
                               IF flagged THEN Append(q.duplicateList, AsOfEntry(row))
                               ELSE q.duplicateList]))
        /\ store' = IF flagged THEN store (+) SetToBag({InsertBinds(AsOfEntry(row))})
                    ELSE store
  /\ UNCHANGED <<exports, connsInUse, uploads>>

\* one turn of the as-of loop
AsOfCheckRow(r) ==
  /\ req[r].handler = "checkAsOfDuplicates" /\ req[r].pc = "check"
  /\ LET q == req[r]
         row == q.jsonData[q.i]
     IN Set(r, AfterAsOfCheck(
          IF AsOfSkips(row) THEN [q EXCEPT !.i = q.i + 1]
          ELSE [q EXCEPT !.i = q.i + 1, !.calls = q.calls + 1,
                         !.duplicateList =
                            IF IsAsOfDuplicate(store, row)
                            THEN Append(q.duplicateList, AsOfEntry(row))
                            ELSE q.duplicateList]))
  /\ UNCHANGED <<store, exports, connsInUse, uploads>>

\* the lookup throws: catch answers 500, finally removes the temp file
AsOfCheckFail(r) ==
  /\ req[r].handler = "checkAsOfDuplicates" /\ req[r].pc = "check"
  /\ ~AsOfSkips(req[r].jsonData[req[r].i])
  /\ Set(r, [req[r] EXCEPT !.pc = "done", !.file = "deleted", !.calls = req[r].calls + 1,
                           !.error = "lookup", !.failedRow = req[r].i,
                           !.res = Response(500, FALSE, "Internal server error.")])
  /\ UNCHANGED <<store, exports, connsInUse, uploads>>

\* duplicates found: release, write the report, answer
AsOfReportDuplicates(r) ==
  /\ req[r].handler = "checkAsOfDuplicates" /\ req[r].pc = "report"
  /\ exports' = [exports EXCEPT !.asof_check_duplicates = ReportFile(req[r].duplicateList)]
  /\ connsInUse' = connsInUse - 1
  /\ Set(r, [req[r] EXCEPT !.pc = "done", !.conn = FALSE, !.file = "deleted",
                           !.res = [Response(200, FALSE, "duplicates.")
                                      EXCEPT !.n = Len(req[r].duplicateList),
                                             !.duplicates = req[r].duplicateList]])
  /\ UNCHANGED <<store, uploads>>

AsOfReportFail(r) ==
  /\ req[r].handler = "checkAsOfDuplicates" /\ req[r].pc = "report"
  /\ connsInUse' = connsInUse - 1
  /\ Set(r, [req[r] EXCEPT !.pc = "done", !.conn = FALSE, !.file = "deleted",
                           !.error = "writeRecords",
                           !.res = Response(500, FALSE, "Internal server error.")])
  /\ UNCHANGED <<store, exports, uploads>>

AsOfFinish(r) ==
  /\ req[r].handler = "checkAsOfDuplicates" /\ req[r].pc = "finish"
  /\ connsInUse' = connsInUse - 1
  /\ Set(r, [req[r] EXCEPT !.pc = "done", !.conn = FALSE, !.file = "deleted",
                           !.res = Response(200, TRUE, "No duplicates found.")])
  /\ UNCHANGED <<store, exports, uploads>>

(***************************************************************************)
(* Uploaded sheets and stored tables                                       *)
(***************************************************************************)
A1 == Str(<<"A", "1">>)
A2 == Str(<<"A", "2">>)
M1 == Str(<<"M", "1">>)
B1 == Str(<<"B", "1">>)
B2 == Str(<<"B", "2">>)

Row3(c1, v1, c2, v2, c3, v3) ==
  [c \in {c1, c2, c3} |-> IF c = c1 THEN v1 ELSE IF c = c2 THEN v2 ELSE v3]
Row2(c1, v1, c2, v2) == [c \in {c1, c2} |-> IF c = c1 THEN v1 ELSE v2]

RowA1M1B1 == Row3("ORDERNUMBER", A1, "MATERIAL_NUMBER", M1, "BATCHNUMBER", B1)
RowA1M1B2 == Row3("ORDERNUMBER", A1, "MATERIAL_NUMBER", M1, "BATCHNUMBER", B2)
RowA1M1 == Row2("ORDERNUMBER", A1, "MATERIAL_NUMBER", M1)
RowA1B1 == Row2("ORDERNUMBER", A1, "BATCHNUMBER", B1)
RowA1M1Padded == Row3("ORDERNUMBER", A1, "MATERIAL_NUMBER", M1, "BATCHNUMBER", Str(<<"B", "1", " ">>))
RowA1M1Blank == Row3("ORDERNUMBER", A1, "MATERIAL_NUMBER", M1, "BATCHNUMBER", Str(<<" ">>))
RowEmptyOrder == Row2("ORDERNUMBER", Str(<<>>), "MATERIAL_NUMBER", M1)
RowBadYear == Row3("ORDERNUMBER", A1, "MATERIAL_NUMBER", M1, "YEAR", Str(<<"2", "x">>))
RowBadSales == Row2("ORDERNUMBER", A2, "SALESDOCUMENT", Str(<<"1", ".">>))

RowNoOrder == Row2("MATERIAL_NUMBER", M1, "BATCHNUMBER", B1)
RowBlankOrder == Row2("ORDERNUMBER", Str(<<" ">>), "MATERIAL_NUMBER", M1)
RowBlankYear == Row3("ORDERNUMBER", A1, "MATERIAL_NUMBER", M1, "YEAR", Str(<<" ">>))
RowEmptySales == Row2("ORDERNUMBER", A2, "SALESDOCUMENT", Str(<<>>))
RowPaddedYear == Row3("ORDERNUMBER", A2, "MATERIAL_NUMBER", M1, "YEAR", Str(<<" ", "7">>))
RowNumbers == Row3("ORDERNUMBER", A2, "SALESDOCUMENT", Num(0, 0), "YEAR", Num(15, 1))
RowSigned == Row3("ORDERNUMBER", A1, "SALESDOCUMENT", Str(<<"-", ".", "5">>),
                  "YEAR", Str(<<"1", ".", "2", ".", "3">>))
RowAllBad == Row3("ORDERNUMBER", Str(<<>>), "SALESDOCUMENT", Str(<<"1", ".">>),
                  "YEAR", Str(<<"2", "x">>))

\* rows that exercise the identity rules
IdentityRows == {RowA1M1B1, RowA1M1B2, RowA1B1}

\* rows that exercise row validation
ValidationRows == {RowA1M1B1, RowA1B1, RowEmptyOrder, RowBadYear, RowBadSales}

\* rows that exercise every rule of the validation loop
SanitizerRows ==
  {RowA1M1B1, RowNoOrder, RowEmptyOrder, RowBlankOrder, RowBadSales, RowBlankYear,
   RowEmptySales, RowPaddedYear, RowNumbers, RowSigned, RowAllBad}

\* rows for the race of two uploads
RaceRows == {RowA1M1B1, RowA1M1B2, RowA1M1}

AsOfA1M1B2 == Row3("Order ID", A1, "Material", M1, "BATCHNUMBER", B2)
AsOfA1M1 == Row2("Order ID", A1, "Material", M1)
AsOfA1M1Blank == Row3("Order ID", A1, "Material", M1, "BATCHNUMBER", Str(<<" ">>))
AsOfPadded == Row3("Order ID", Str(<<" ", "A", "1">>), "Material", M1,
                   "BATCHNUMBER", Str(<<" ", "B", "1">>))
AsOfA1B1 == Row2("Order ID", A1, "BATCHNUMBER", B1)
AsOfA2M1B1 == Row3("Order ID", A2, "Material", M1, "BATCHNUMBER", B1)

AsOfRows == {AsOfA1M1B2, AsOfA1M1, AsOfA1M1Blank, AsOfPadded, AsOfA1B1, AsOfA2M1B1}

\* the sheets of at most MaxRows rows over a set of rows
Sheets(rows) == UNION {[1..n -> rows] : n \in 0..MaxRows}

\* the tables of at most max records that uploads of these rows leave
Tables(rows, max) ==
  {SeqToBag(sq) : sq \in UNION {[1..n -> {InsertBinds(row) : row \in rows}] : n \in 0..max}}

\* as-of rows and stored rows for the two checkers side by side
CheckerRows == {AsOfA1M1B2, AsOfA1M1, AsOfA1B1}
CheckerStoredRows == {RowA1M1B1, RowA1M1B2, RowA1M1}

\* rows whose records the scanned table holds
ScanStoredRows == {RowA1M1B1, RowA1M1B2, RowA1M1, RowA1M1Padded, RowA1M1Blank, RowA1B1}

\* rows whose records the table of the as-of check holds
AsOfStoredRows == {RowA1M1B1, RowA1M1, RowA1M1Padded, RowA1M1Blank, RowA1B1}

InitStored(rows, max) ==
  /\ store \in Tables(rows, max)
  /\ req = [r \in Reqs |-> Idle]
  /\ exports = [duplicates_report |-> NoFile, asof_check_duplicates |-> NoFile]
  /\ connsInUse = 0
  /\ uploads = 0

ErrorNums == {1722, 3113}

(***************************************************************************)
(* The handlers as next-state relations                                    *)
(***************************************************************************)
AddSteps(r) ==
  \/ AddGetConnection(r)
  \/ AddGetConnectionFail(r)
  \/ AddCheckRow(r)
  \/ \E errorNum \in ErrorNums : AddCheckFail(r, errorNum)
  \/ AddReportDuplicates(r)
  \/ AddReportFail(r)
  \/ AddInsertRow(r)
  \/ \E errorNum \in ErrorNums : AddInsertFail(r, errorNum)
  \/ AddFinish(r)

ScanSteps(r) ==
  \/ ScanReceive(r)
  \/ ScanGetConnection(r)
  \/ ScanGetConnectionFail(r)
  \/ ScanExecute(r)
  \/ ScanExecuteFail(r)

AsOfSteps(r) ==
  \/ AsOfGetConnection(r)
  \/ AsOfGetConnectionFail(r)
  \/ AsOfCheckRow(r)
  \/ AsOfCheckFail(r)
  \/ AsOfReportDuplicates(r)
  \/ AsOfReportFail(r)
  \/ AsOfFinish(r)

\* add uploads of identity rows, two at a time
NextAdd ==
  \E r \in UploadSlots :
    \/ \E jsonData \in Sheets(IdentityRows) : \E hasFile, readable \in BOOLEAN :
         AddReceive(r, hasFile, readable, jsonData)
    \/ AddSteps(r)
    \/ Forget(r)

SpecAdd == Init /\ [][NextAdd]_vars

\* add uploads of valid and invalid rows, two at a time
NextValidate ==
  \E r \in UploadSlots :
    \/ \E jsonData \in Sheets(ValidationRows) : \E hasFile, readable \in BOOLEAN :
         AddReceive(r, hasFile, readable, jsonData)
    \/ AddSteps(r)
    \/ Forget(r)

SpecValidate == Init /\ [][NextValidate]_vars

\* add uploads that exercise the validation loop, one at a time
NextSanitize ==
  \E r \in {1} :
    \/ \E jsonData \in Sheets(SanitizerRows) : \E hasFile, readable \in BOOLEAN :
         AddReceive(r, hasFile, readable, jsonData)
    \/ AddSteps(r)
    \/ Forget(r)

SpecSanitize == Init /\ [][NextSanitize]_vars

\* two add uploads at a time and a true-duplicate scan beside them
NextRace ==
  \/ \E r \in UploadSlots :
       \/ \E jsonData \in Sheets(RaceRows) : AddReceive(r, TRUE, TRUE, jsonData)
       \/ AddSteps(r)
  \/ \E r \in Reqs \ UploadSlots : ScanSteps(r)
  \/ \E r \in Reqs : Forget(r)

SpecRace == Init /\ [][NextRace]_vars

\* as-of checks, one at a time, over a stored table
NextAsOf ==
  \E r \in {1} :
    \/ \E rows \in Sheets(AsOfRows) : \E hasFile, readable \in BOOLEAN :
         AsOfReceive(r, hasFile, readable, rows)
    \/ AsOfSteps(r)
    \/ Forget(r)

SpecAsOf == InitStored(AsOfStoredRows, MaxStored) /\ [][NextAsOf]_vars

\* true-duplicate scans over a stored table
NextScan == \E r \in UploadSlots : ScanSteps(r) \/ Forget(r)

SpecScan == InitStored(ScanStoredRows, MaxScanned) /\ [][NextScan]_vars

\* an as-of check and true-duplicate scans side by side over a stored table
NextCheckers ==
  \/ \E r \in {1} :
       \/ \E rows \in Sheets(CheckerRows) : \E hasFile, readable \in BOOLEAN :
            AsOfReceive(r, hasFile, readable, rows)
       \/ AsOfSteps(r)
  \/ \E r \in UploadSlots : ScanSteps(r) \/ Forget(r)

SpecCheckers == InitStored(CheckerStoredRows, MaxStored) /\ [][NextCheckers]_vars

\* rows and stored rows for the duplicate reports
RowA2M1 == Row2("ORDERNUMBER", A2, "MATERIAL_NUMBER", M1)
RowA2M1B1 == Row3("ORDERNUMBER", A2, "MATERIAL_NUMBER", M1, "BATCHNUMBER", B1)
AsOfA2M1Status == Row3("Order ID", A2, "Material", M1, "STATUS", Str(<<"X">>))

ReportRows == {RowA1M1, RowA2M1B1}
AsOfReportRows == {AsOfA1M1B2, AsOfA2M1Status}
ReportStoredRows == {RowA1M1, RowA2M1}

\* add uploads and as-of checks, two at a time, whose callers fetch the reports
NextReport ==
  \E r \in UploadSlots :
    \/ \E jsonData \in Sheets(ReportRows) : AddReceive(r, TRUE, TRUE, jsonData)
    \/ \E rows \in Sheets(AsOfReportRows) : AsOfReceive(r, TRUE, TRUE, rows)
    \/ AddSteps(r)
    \/ AsOfSteps(r)
    \/ downloadDuplicateReport(r)
    \/ downloadAsOfDuplicateReport(r)
    \/ Forget(r)

SpecReport == InitStored(ReportStoredRows, MaxStored) /\ [][NextReport]_vars

\* stored rows for the order of the scan: two identities with two batch
\* numbers each, and records of one identity that differ in status or in
\* sales document only
RowA2M1B2 == Row3("ORDERNUMBER", A2, "MATERIAL_NUMBER", M1, "BATCHNUMBER", B2)
RowA1M1Status == Row3("ORDERNUMBER", A1, "MATERIAL_NUMBER", M1, "STATUS", Str(<<"x">>))
RowA1M1Sales == Row3("ORDERNUMBER", A1, "MATERIAL_NUMBER", M1, "SALESDOCUMENT", Num(7, 0))

OrderStoredRows ==
  {RowA1M1B1, RowA1M1B2, RowA2M1B1, RowA2M1B2, RowA1M1, RowA1M1Status, RowA1M1Sales}

\* true-duplicate scans over a stored table of up to MaxOrdered records
NextOrder == \E r \in UploadSlots : ScanSteps(r) \/ Forget(r)

SpecOrder == InitStored(OrderStoredRows, MaxOrdered) /\ [][NextOrder]_vars

\* rows whose MATERIAL_NUMBER cell is the number 0
RowA1ZeroB1 == Row3("ORDERNUMBER", A1, "MATERIAL_NUMBER", Num(0, 0), "BATCHNUMBER", B1)
RowA1ZeroB2 == Row3("ORDERNUMBER", A1, "MATERIAL_NUMBER", Num(0, 0), "BATCHNUMBER", B2)

\* rows for uploads that follow one another
SequentialRows == {RowA1M1B1, RowA1M1B2, RowA2M1, RowA1B1, RowA1ZeroB1, RowA1ZeroB2}
SequentialStoredRows == {RowA1M1B1, RowA2M1, RowA1B1}

\* no two rows of the sheet have the same order number and material number
DistinctIdentities(jsonData) ==
  \A j, k \in 1..Len(jsonData) :
    (/\ j # k
     /\ "MATERIAL_NUMBER" \in DOMAIN jsonData[j]
     /\ "MATERIAL_NUMBER" \in DOMAIN jsonData[k]
     /\ jsonData[j]["MATERIAL_NUMBER"] = jsonData[k]["MATERIAL_NUMBER"])
      => jsonData[j]["ORDERNUMBER"] # jsonData[k]["ORDERNUMBER"]

SequentialSheets == {jsonData \in Sheets(SequentialRows) : DistinctIdentities(jsonData)}

\* no request is being served
NoneInFlight == \A r \in Reqs : req[r].pc \in {"idle", "done"}

\* a table in which no record with a material number shares its order number
\* and material number with another
InitSequential ==
  /\ InitStored(SequentialStoredRows, MaxStored)
  /\ \A rec \in BagToSet(store) :
       ~IsNull(rec.MATERIAL_NUMBER) => CountIdentity(store, rec.ORDERNUMBER, rec.MATERIAL_NUMBER) = 1

\* add uploads and scans served one after the other, every store call of
\* which succeeds
NextSequential ==
  \E r \in UploadSlots :
    \/ NoneInFlight /\ \E jsonData \in SequentialSheets : AddReceive(r, TRUE, TRUE, jsonData)
    \/ AddGetConnection(r)
    \/ AddCheckRow(r)
    \/ AddReportDuplicates(r)
    \/ AddInsertRow(r)
    \/ AddFinish(r)
    \/ NoneInFlight /\ ScanReceive(r)
    \/ ScanGetConnection(r)
    \/ ScanExecute(r)
    \/ Forget(r)

SpecSequential == InitSequential /\ [][NextSequential]_vars

\* stored rows and request bodies for edits and deletes: two order numbers,
\* each with records of different material numbers
RowA2B1 == Row2("ORDERNUMBER", A2, "BATCHNUMBER", B1)
EditedStoredRows == {RowA1M1B1, RowA1B1, RowA2M1, RowA2B1}

M2 == Str(<<"M", "2">>)
DataAll == Row3("MATERIAL_NUMBER", M2, "BATCHNUMBER", B2, "STATUS", Str(<<"x">>))
DataYear == Row2("MATERIAL_NUMBER", M1, "YEAR", Num(7, 0))
EditData == {DataAll, DataYear}
OrderNumbers == {A1, A2}

\* an edit in the first slot beside a delete in the second, over a stored table
NextEdit ==
  \/ \E r \in {1} :
       \/ \E ordernumber \in OrderNumbers : \E hasData \in BOOLEAN :
            \E updated_data \in (IF hasData THEN EditData ELSE {<<>>}) :
              EditReceive(r, ordernumber, Num(7, 0), hasData, updated_data)
       \/ EditGetConnection(r)
       \/ EditGetConnectionFail(r)
       \/ EditExecute(r)
       \/ EditExecuteFail(r)
       \/ Forget(r)
  \/ \E r \in {2} :
       \/ \E ordernumber \in OrderNumbers : DeleteReceive(r, ordernumber)
       \/ DeleteGetConnection(r)
       \/ DeleteGetConnectionFail(r)
       \/ DeleteExecute(r)
       \/ DeleteExecuteFail(r)
       \/ Forget(r)

SpecEdit == InitStored(EditedStoredRows, MaxEdited) /\ [][NextEdit]_vars

\* every handler
Next ==
  \/ NextAdd
  \/ NextValidate
  \/ NextSanitize
  \/ NextRace
  \/ NextAsOf
  \/ NextScan
  \/ NextCheckers
  \/ NextReport
  \/ NextOrder
  \/ NextSequential
  \/ NextEdit

Spec == Init /\ [][Next]_vars

(***************************************************************************)
(* Properties                                                              *)
(***************************************************************************)
IsAdd(q) == q.handler = "addReconciliation"
IsAsOf(q) == q.handler = "checkAsOfDuplicates"
IsScan(q) == q.handler = "checkTrueDuplicates"

\* the cell is absent or the empty string
Absent(row, col) == col \notin DOMAIN row \/ row[col] = Str(<<>>)

\* the text is an optional minus sign, digits, at most one point, and ends
\* in a digit
ReadsAsNumber(x) ==
  LET b == IF x # <<>> /\ Head(x) = "-" THEN Tail(x) ELSE x
  IN /\ b # <<>>
     /\ \A k \in 1..Len(b) : IsDigit(b[k]) \/ b[k] = "."
     /\ Cardinality({k \in 1..Len(b) : b[k] = "."}) <= 1
     /\ IsDigit(b[Len(b)])

\* the cell is present and is not a number after trimming
Unparseable(row, col) ==
  /\ col \in DOMAIN row
  /\ row[col].t = "string"
  /\ ~ReadsAsNumber(Trim(row[col].s))

RowFailsValidation(row) ==
  \/ Absent(row, "ORDERNUMBER")
  \/ Unparseable(row, "SALESDOCUMENT")
  \/ Unparseable(row, "YEAR")

HasFailingRow(q) == \E k \in 1..Len(q.jsonData) : RowFailsValidation(q.jsonData[k])

\* C1: an add upload whose sheet has a row that fails row validation is
\* rejected as a whole (status 400) in the step that receives it: it never
\* holds a connection, makes no store call and commits no row, the valid rows
\* of the sheet included.
C1_ValidateBeforeCommit ==
  \A r \in Reqs :
    (IsAdd(req[r]) /\ HasFailingRow(req[r])) =>
      /\ req[r].pc = "done"
      /\ req[r].res.status = 400 /\ ~req[r].res.success
      /\ req[r].calls = 0
      /\ req[r].inserts = <<>> /\ req[r].insertedCount = 0
      /\ ~req[r].conn

\* a rejected sheet of one valid and one invalid row, beside a committed table
C1_Witness ==
  \E r \in Reqs :
    /\ IsAdd(req[r]) /\ Len(req[r].jsonData) = 2
    /\ \E k \in 1..2 : RowFailsValidation(req[r].jsonData[k])
    /\ \E k \in 1..2 : ~RowFailsValidation(req[r].jsonData[k])
    /\ req[r].res.status = 400 /\ Len(req[r].res.invalidRows) > 0
    /\ store # EmptyBag

\* C2: once a row of an add upload is flagged as a duplicate, the request
\* inserts no row at all; it ends answered 409 with the flagged rows, or, when
\* a later lookup or the report write throws, with the error answer, and in
\* neither case as a success.
C2_WholeBatchRejected ==
  \A r \in Reqs :
    (IsAdd(req[r]) /\ Len(req[r].duplicateList) > 0) =>
      /\ req[r].inserts = <<>> /\ req[r].insertedCount = 0
      /\ req[r].pc \in {"check", "report", "done"}
      /\ req[r].pc = "done" => ~req[r].res.success
      /\ (req[r].pc = "done" /\ req[r].error = "none") =>
            /\ req[r].res.status = 409
            /\ req[r].res.duplicates = req[r].duplicateList
      /\ (req[r].pc = "done" /\ req[r].error # "none") =>
            /\ req[r].error \in {"lookup", "writeRecords"}
            /\ req[r].res.status \in {400, 500}

\* a 409 for a sheet of two rows of which one was flagged
C2_Witness ==
  \E r \in Reqs :
    /\ IsAdd(req[r]) /\ req[r].pc = "done" /\ req[r].res.status = 409
    /\ Len(req[r].jsonData) = 2 /\ Len(req[r].duplicateList) = 1

\* the row has an order number and a material number
HasIdentity(row) == ~Absent(row, "ORDERNUMBER") /\ ~Absent(row, "MATERIAL_NUMBER")

\* a cell value as a text column holds it
AsText(v) == IF v.t = "number" THEN Str(ToText(v)) ELSE v

StoreHolds(table, ord, mat) ==
  \E rec \in BagToSet(table) : rec.ORDERNUMBER = ord /\ rec.MATERIAL_NUMBER = mat

\* request r takes a turn of its check loop without an error
CheckTurn(r) == req[r].pc = "check" /\ req'[r] # req[r] /\ req'[r].error = "none"

Flags(r) == Len(req'[r].duplicateList) = Len(req[r].duplicateList) + 1

\* C3: a turn of the duplicate-check loop of an add upload flags its row if
\* and only if the row has both ORDERNUMBER and MATERIAL_NUMBER and the table,
\* as it is at that turn, holds a record with that pair; otherwise the list of
\* flagged rows is left as it was.
C3_FlaggedIffStored ==
  [][\A r \in Reqs :
       (IsAdd(req[r]) /\ CheckTurn(r)) =>
         LET row == req[r].jsonData[req[r].i]
         IN /\ Flags(r) <=>
                 /\ HasIdentity(row)
                 /\ StoreHolds(store, AsText(row["ORDERNUMBER"]), AsText(row["MATERIAL_NUMBER"]))
            /\ ~Flags(r) => req'[r].duplicateList = req[r].duplicateList]_vars

\* the cell is there and is neither the empty text nor the number 0
NonZero(row, col) ==
  /\ ~Absent(row, col)
  /\ ~(row[col].t = "number" /\ row[col].m = 0)

\* what holds of the code: the same, for the rows whose order number and
\* material number are neither empty nor the number 0
C3_FlaggedIffStoredNonZero ==
  [][\A r \in Reqs :
       (IsAdd(req[r]) /\ CheckTurn(r)) =>
         LET row == req[r].jsonData[req[r].i]
         IN /\ Flags(r) <=>
                 /\ NonZero(row, "ORDERNUMBER") /\ NonZero(row, "MATERIAL_NUMBER")
                 /\ StoreHolds(store, AsText(row["ORDERNUMBER"]), AsText(row["MATERIAL_NUMBER"]))
            /\ ~Flags(r) => req'[r].duplicateList = req[r].duplicateList]_vars

\* a sheet with a flagged row and a row without material number that went
\* unflagged although the table holds its order number without material
C3_Witness ==
  \E r \in Reqs :
    /\ IsAdd(req[r]) /\ req[r].pc = "report"
    /\ Len(req[r].jsonData) = 2 /\ Len(req[r].duplicateList) = 1
    /\ \E k \in 1..2 :
         /\ "MATERIAL_NUMBER" \notin DOMAIN req[r].jsonData[k]
         /\ StoreHolds(store, req[r].jsonData[k]["ORDERNUMBER"], Null)

NonNullBatches(table) == \A rec \in BagToSet(table) : ~IsNull(rec.BATCHNUMBER)

TrimmedCell(row, col) == Str(Trim(ToText(row[col])))

\* the as-of row has an order and a material
AsOfHasIdentity(row) ==
  /\ "Order ID" \in DOMAIN row /\ TrimmedCell(row, "Order ID") # Str(<<>>)
  /\ "Material" \in DOMAIN row /\ TrimmedCell(row, "Material") # Str(<<>>)

\* the uploaded batch number: trimmed, null if absent or blank
UploadedBatch(row) ==
  IF "BATCHNUMBER" \notin DOMAIN row \/ TrimmedCell(row, "BATCHNUMBER") = Str(<<>>)
  THEN Null ELSE TrimmedCell(row, "BATCHNUMBER")

AsOfMatches(table, row) ==
  {rec \in BagToSet(table) :
     /\ rec.ORDERNUMBER = TrimmedCell(row, "Order ID")
     /\ rec.MATERIAL_NUMBER = TrimmedCell(row, "Material")}

\* C4: over a table without null batch numbers, a turn of the as-of loop
\* flags its row if and only if the row has both 'Order ID' and 'Material',
\* the table holds a record of that identity and no such record's trimmed
\* batch number is the uploaded one (trimmed, null if absent or blank); a row
\* without 'Order ID' or 'Material' is passed over with no store call and no
\* error.
C4_AsOfFlaggedIff ==
  [][\A r \in Reqs :
       (IsAsOf(req[r]) /\ req[r].pc = "check" /\ req'[r] # req[r] /\ NonNullBatches(store)) =>
         LET row == req[r].jsonData[req[r].i]
         IN /\ req'[r].error = "none" =>
                 (Flags(r) <=>
                    /\ AsOfHasIdentity(row)
                    /\ AsOfMatches(store, row) # {}
                    /\ \A rec \in AsOfMatches(store, row) :
                         Str(Trim(ToText(rec.BATCHNUMBER))) # UploadedBatch(row))
            /\ ~AsOfHasIdentity(row) =>
                 /\ req'[r].error = "none"
                 /\ req'[r].calls = req[r].calls
                 /\ req'[r].duplicateList = req[r].duplicateList]_vars

\* two rows of stored identity, one flagged and one whose padded batch number
\* matches a stored one
C4_Witness ==
  \E r \in Reqs :
    /\ IsAsOf(req[r]) /\ req[r].pc = "done" /\ req[r].error = "none"
    /\ NonNullBatches(store) /\ store # EmptyBag
    /\ Len(req[r].jsonData) = 2 /\ Len(req[r].duplicateList) = 1
    /\ \A k \in 1..2 : /\ AsOfHasIdentity(req[r].jsonData[k])
                       /\ AsOfMatches(store, req[r].jsonData[k]) # {}
    /\ \E k \in 1..2 : Cell(req[r].jsonData[k], "BATCHNUMBER") # UploadedBatch(req[r].jsonData[k])

\* the row is among the flagged entries
Flagged(q, row) ==
  \E j \in 1..Len(q.duplicateList) :
    \A c \in DOMAIN row : Cell(q.duplicateList[j], c) = row[c]

\* C5: an as-of row without batch number (absent or blank) is not flagged
\* when the table holds a record of its identity whose batch number is null.
C5_NullMatchesNull ==
  \A r \in Reqs :
    (IsAsOf(req[r]) /\ req[r].pc = "done" /\ req[r].error = "none") =>
      \A k \in 1..Len(req[r].jsonData) :
        LET row == req[r].jsonData[k]
        IN (/\ AsOfHasIdentity(row)
            /\ UploadedBatch(row) = Null
            /\ \E rec \in AsOfMatches(store, row) : IsNull(rec.BATCHNUMBER))
             => ~Flagged(req[r], row)

SamePartition(a, b) ==
  a.ORDERNUMBER = b.ORDERNUMBER /\ a.MATERIAL_NUMBER = b.MATERIAL_NUMBER

PartitionOf(table, rec) == {q \in BagToSet(table) : SamePartition(q, rec)}

RECURSIVE Copies(_, _)
Copies(table, S) ==
  IF S = {} THEN 0
  ELSE LET x == CHOOSE y \in S : TRUE IN CopiesIn(x, table) + Copies(table, S \ {x})

\* more than one record and more than one batch number in the record's partition
Qualifies(table, rec) ==
  /\ Copies(table, PartitionOf(table, rec)) > 1
  /\ Cardinality({q.BATCHNUMBER : q \in PartitionOf(table, rec)}) > 1

Projection(x) == <<x.ORDERNUMBER, x.MATERIAL_NUMBER, x.BATCHNUMBER, x.STATUS>>

Returned(data, p) == Cardinality({j \in 1..Len(data) : Projection(data[j]) = p})

Expected(table, p) ==
  Copies(table, {rec \in BagToSet(table) : Projection(rec) = p /\ Qualifies(table, rec)})

ScanAnswered(q) == IsScan(q) /\ q.pc = "done" /\ q.res.status = 200

\* C6: over a table without null batch numbers the scan returns each record
\* of a partition with more than one record and more than one batch number,
\* as often as it is stored, and nothing else: no record of a partition of one
\* record or of records that share one batch number.
C6_ScanReturnsQualifying ==
  \A r \in Reqs :
    (ScanAnswered(req[r]) /\ NonNullBatches(store)) =>
      \A p \in {Projection(rec) : rec \in BagToSet(store)}
               \cup {Projection(req[r].res.data[j]) : j \in 1..Len(req[r].res.data)} :
        Returned(req[r].res.data, p) = Expected(store, p)

\* a table of three records of which the scan returned the two that disagree
C6_Witness ==
  \E r \in Reqs :
    /\ ScanAnswered(req[r]) /\ NonNullBatches(store)
    /\ BagCardinality(store) = 3 /\ Len(req[r].res.data) = 2

Reports(data, ord, mat) ==
  \E j \in 1..Len(data) : data[j].ORDERNUMBER = ord /\ data[j].MATERIAL_NUMBER = mat

\* C7: a partition in which one record has a null batch number and another a
\* non-null one is reported by the scan.
C7_NullCountsAsDistinct ==
  \A r \in Reqs :
    ScanAnswered(req[r]) =>
      \A a, b \in BagToSet(store) :
        (SamePartition(a, b) /\ IsNull(a.BATCHNUMBER) /\ ~IsNull(b.BATCHNUMBER)) =>
          Reports(req[r].res.data, a.ORDERNUMBER, a.MATERIAL_NUMBER)

Inserted(q, ord, mat) ==
  \E j \in 1..Len(q.inserts) :
    q.inserts[j].ORDERNUMBER = ord /\ q.inserts[j].MATERIAL_NUMBER = mat

\* two add uploads have each committed a record of the identity: each passed
\* its duplicate check before the other's insert
Raced(ord, mat) ==
  \E q1, q2 \in UploadSlots :
    /\ q1 # q2
    /\ IsAdd(req[q1]) /\ Inserted(req[q1], ord, mat)
    /\ IsAdd(req[q2]) /\ Inserted(req[q2], ord, mat)

\* request r runs the true-duplicate query
ScanTurn(r) == IsScan(req[r]) /\ req[r].pc = "execute" /\ ScanAnswered(req'[r])

SomeDisagree(table, rec) ==
  \E a, b \in PartitionOf(table, rec) :
    ~IsNull(a.BATCHNUMBER) /\ ~IsNull(b.BATCHNUMBER) /\ a.BATCHNUMBER # b.BATCHNUMBER

InsertFailed(q) == IsAdd(q) /\ q.pc = "done" /\ q.error = "insert"

\* the record row k of the sheet is committed as
CommittedAs(rec, row) ==
  /\ rec.ORDERNUMBER = Cell(row, "ORDERNUMBER")
  /\ rec.MATERIAL_NUMBER = (IF Absent(row, "MATERIAL_NUMBER") THEN Null ELSE row["MATERIAL_NUMBER"])
  /\ rec.BATCHNUMBER = (IF Absent(row, "BATCHNUMBER") THEN Null ELSE row["BATCHNUMBER"])

\* C9: when the insert of row k of an accepted sheet throws, rows 1..k-1 of
\* the sheet are what the request has committed, they are in the table (no
\* rollback), and the request has ended: rows k..n are not committed.
C9_PartialSuccess ==
  \A r \in Reqs :
    InsertFailed(req[r]) =>
      LET q == req[r]
          k == q.failedRow
      IN /\ k \in 1..Len(q.jsonData)
         /\ Len(q.inserts) = k - 1 /\ q.insertedCount = k - 1
         /\ \A j \in 1..(k - 1) : CommittedAs(q.inserts[j], q.jsonData[j])
         /\ SeqToBag(q.inserts) \sqsubseteq store

\* the second insert of a sheet failed after the first was committed
C9_Witness ==
  \E r \in Reqs :
    /\ InsertFailed(req[r]) /\ req[r].failedRow = 2
    /\ Len(req[r].inserts) = 1 /\ BagCardinality(store) = 1

\* C10 as stated: the failure response of a failed insert states the count
\* of rows committed before the failure and the index of the failing row.
C10_FailureStatesCountAndRow ==
  \A r \in Reqs :
    InsertFailed(req[r]) =>
      /\ req[r].res.n = req[r].insertedCount
      /\ req[r].res.row = req[r].failedRow

\* C10 as amended: the failure response of a failed insert is the generic
\* error answer (500 "Internal server error.", or 400 for ORA-01722); it states
\* neither a count of committed rows nor a row index, and lists no rows.
C10_FailureIsGeneric ==
  \A r \in Reqs :
    InsertFailed(req[r]) =>
      /\ req[r].res.status \in {400, 500} /\ ~req[r].res.success
      /\ req[r].res.n = -1 /\ req[r].res.row = -1
      /\ req[r].res.invalidRows = <<>> /\ req[r].res.duplicates = <<>>

\* a failed insert after one committed row, answered 500
C10_Witness ==
  \E r \in Reqs :
    /\ InsertFailed(req[r]) /\ req[r].insertedCount = 1
    /\ req[r].res.status = 500

\* C11: when a call of an upload operation (add upload or as-of check) that
\* was given a file has ended, on whichever path, the uploaded temp file has
\* been deleted.
C11_TempFileReleased ==
  \A r \in Reqs :
    ((IsAdd(req[r]) \/ IsAsOf(req[r])) /\ req[r].pc = "done") => req[r].file # "present"

NumericColumns == {"SALESDOCUMENT", "YEAR"}

\* the fields of the row that row validation objects to
FieldProblems(row) ==
  {c \in {"ORDERNUMBER"} : Absent(row, c)} \cup {c \in NumericColumns : Unparseable(row, c)}

\* the rejection entry e reports field c of row k of the sheet
EntryIs(e, k, c, row) ==
  /\ e.row = k
  /\ IF c = "ORDERNUMBER" THEN e.error = "ORDERNUMBER is required"
     ELSE e.column = c /\ e.raw = row[c]

\* the request was rejected by row validation
RejectedByValidation(q) == IsAdd(q) /\ q.pc = "done" /\ q.res.invalidRows # <<>>

\* C12: the rejection list of an add upload rejected by row validation has an
\* entry for every problem field of every row of the sheet, rows after the
\* first invalid one included, nothing else, and is in the order of the rows.
C12_NoFailFast ==
  \A r \in Reqs :
    RejectedByValidation(req[r]) =>
      LET q == req[r]
          L == q.res.invalidRows
      IN /\ q.res.status = 400
         /\ \A k \in 1..Len(q.jsonData) : \A c \in FieldProblems(q.jsonData[k]) :
              \E j \in 1..Len(L) : EntryIs(L[j], k, c, q.jsonData[k])
         /\ \A j \in 1..Len(L) :
              /\ L[j].row \in 1..Len(q.jsonData)
              /\ \E c \in FieldProblems(q.jsonData[L[j].row]) :
                   EntryIs(L[j], L[j].row, c, q.jsonData[L[j].row])
         /\ \A i, j \in 1..Len(L) : i < j => L[i].row <= L[j].row

\* a rejected sheet whose two rows are both invalid, the first in three fields
C12_Witness ==
  \E r \in Reqs :
    /\ RejectedByValidation(req[r])
    /\ Len(req[r].jsonData) = 2
    /\ Cardinality(FieldProblems(req[r].jsonData[1])) = 3
    /\ FieldProblems(req[r].jsonData[2]) # {}
    /\ Len(req[r].res.invalidRows) >= 4

\* the request has read a sheet that has rows
ReadSheet(q) == IsAdd(q) /\ q.jsonData # <<>>

\* the response lists row k as lacking its order number
RequiredEntry(q, k) ==
  \E j \in 1..Len(q.res.invalidRows) :
    q.res.invalidRows[j].row = k /\ q.res.invalidRows[j].error = "ORDERNUMBER is required"

\* C13 as stated: for every row of a non-empty add upload, the first row
\* included, whose ORDERNUMBER is absent or empty, the upload is rejected with
\* an entry "ORDERNUMBER is required" for that row's index and no store call is
\* made.
C13_RequiredPerRow ==
  \A r \in Reqs :
    ReadSheet(req[r]) =>
      \A k \in 1..Len(req[r].jsonData) :
        Absent(req[r].jsonData[k], "ORDERNUMBER") =>
          /\ req[r].pc = "done" /\ req[r].res.status = 400
          /\ req[r].calls = 0 /\ ~req[r].conn
          /\ RequiredEntry(req[r], k)

\* C13 as amended: for every row of a non-empty add upload whose ORDERNUMBER
\* is absent or empty, the upload is rejected and no store call is made; the
\* rejection has an entry "ORDERNUMBER is required" for that row's index when
\* the first row has the ORDERNUMBER column, and when the first row has no
\* ORDERNUMBER cell the upload is rejected for the missing column, with no
\* entry for any row.
C13_RequiredPerRowOrColumn ==
  \A r \in Reqs :
    ReadSheet(req[r]) =>
      \A k \in 1..Len(req[r].jsonData) :
        Absent(req[r].jsonData[k], "ORDERNUMBER") =>
          /\ req[r].pc = "done" /\ req[r].res.status = 400
          /\ req[r].calls = 0 /\ ~req[r].conn
          /\ IF "ORDERNUMBER" \in DOMAIN req[r].jsonData[1]
             THEN RequiredEntry(req[r], k)
             ELSE /\ req[r].res.missingColumns = <<"ORDERNUMBER">>
                  /\ req[r].res.invalidRows = <<>>

\* a sheet whose first row is valid and whose second row has no ORDERNUMBER
\* cell, rejected with the entry for row 2
C13_Witness ==
  \E r \in Reqs :
    /\ ReadSheet(req[r]) /\ Len(req[r].jsonData) = 2
    /\ FieldProblems(req[r].jsonData[1]) = {}
    /\ "ORDERNUMBER" \notin DOMAIN req[r].jsonData[2]
    /\ RequiredEntry(req[r], 2) /\ req[r].calls = 0

\* the text of the value is empty once trimmed
BlankText(v) == v.t = "string" /\ Trim(v.s) = <<>>

\* C14: a row whose ORDERNUMBER is whitespace only is rejected with
\* "ORDERNUMBER is required", and every record the add flow has committed has
\* an order number that is not empty after trimming.
C14_OrderNumberTrimmed ==
  /\ \A r \in Reqs :
       ReadSheet(req[r]) =>
         \A k \in 1..Len(req[r].jsonData) :
           ("ORDERNUMBER" \in DOMAIN req[r].jsonData[1]
              /\ BlankText(Cell(req[r].jsonData[k], "ORDERNUMBER"))) =>
             (req[r].pc = "done" /\ RequiredEntry(req[r], k))
  /\ \A rec \in BagToSet(store) :
       ~IsNull(rec.ORDERNUMBER) /\ ~BlankText(rec.ORDERNUMBER)

\* the sheet passed the batch-level checks and went through the validation loop
Validated(q) == ReadSheet(q) /\ "ORDERNUMBER" \in DOMAIN q.jsonData[1]

\* the response names column c of row k with the raw value of the cell
NumericEntry(q, k, c) ==
  \E j \in 1..Len(q.res.invalidRows) :
    /\ q.res.invalidRows[j].row = k
    /\ q.res.invalidRows[j].column = c
    /\ q.res.invalidRows[j].raw = q.jsonData[k][c]

AbsentOrBlank(row, col) == col \notin DOMAIN row \/ BlankText(row[col])

\* C16: a row whose SALESDOCUMENT or YEAR is absent, or present but empty or
\* blank, is not rejected for that field, and the value committed for the
\* field is null.
C16_AbsentOrEmptyNumericsValid ==
  \A r \in Reqs :
    Validated(req[r]) =>
      \A k \in 1..Len(req[r].jsonData) : \A c \in NumericColumns :
        AbsentOrBlank(req[r].jsonData[k], c) =>
          /\ \A j \in 1..Len(req[r].res.invalidRows) :
               ~(req[r].res.invalidRows[j].row = k /\ req[r].res.invalidRows[j].column = c)
          /\ k <= Len(req[r].inserts) => IsNull(req[r].inserts[k][c])

\* the same for a field that is absent: this much the code does
C16_AbsentNumericsValid ==
  \A r \in Reqs :
    Validated(req[r]) =>
      \A k \in 1..Len(req[r].jsonData) : \A c \in NumericColumns :
        c \notin DOMAIN req[r].jsonData[k] =>
          /\ \A j \in 1..Len(req[r].res.invalidRows) :
               ~(req[r].res.invalidRows[j].row = k /\ req[r].res.invalidRows[j].column = c)
          /\ k <= Len(req[r].inserts) => IsNull(req[r].inserts[k][c])

\* the uploaded file was read and its sheet has no rows
EmptySheet(q) ==
  IsAdd(q) /\ q.file # "none" /\ q.error # "readFile" /\ q.jsonData = <<>>

\* the first row of the sheet has no ORDERNUMBER cell
LacksColumn(q) == ReadSheet(q) /\ "ORDERNUMBER" \notin DOMAIN q.jsonData[1]

\* C17: an add upload whose sheet has no rows, or whose first row lacks the
\* ORDERNUMBER column, is rejected (status 400) in the step that receives it:
\* no row has been validated (no rejection list, whatever the rows hold), no
\* store call is made, nothing is committed, and the missing-column rejection
\* names the missing column.
C17_BatchPreconditions ==
  \A r \in Reqs :
    (EmptySheet(req[r]) \/ LacksColumn(req[r])) =>
      LET q == req[r]
      IN /\ q.pc = "done" /\ q.res.status = 400 /\ ~q.res.success
         /\ q.calls = 0 /\ ~q.conn /\ q.inserts = <<>>
         /\ q.invalidRows = <<>> /\ q.res.invalidRows = <<>>
         /\ LacksColumn(q) => q.res.missingColumns = <<"ORDERNUMBER">>
         /\ EmptySheet(q) =>
              q.res.message = "Uploaded file is empty." /\ q.res.missingColumns = <<>>

\* a sheet whose first row has no ORDERNUMBER cell and whose second row has
\* invalid fields was rejected for the column alone
C17_Witness ==
  \E r \in Reqs :
    /\ LacksColumn(req[r]) /\ Len(req[r].jsonData) = 2
    /\ FieldProblems(req[r].jsonData[2]) # {}
    /\ req[r].res.missingColumns = <<"ORDERNUMBER">>
    /\ req[r].res.invalidRows = <<>>

\* the upload passed validation, flagged no row and met no error
Accepted(q) ==
  /\ Validated(q) /\ q.pc = "done" /\ q.error = "none"
  /\ \A k \in 1..Len(q.jsonData) : FieldProblems(q.jsonData[k]) = {}
  /\ q.duplicateList = <<>>

\* C18: an add upload of n rows that passes validation, flags no row and
\* meets no store failure answers success with the count n, and has committed
\* exactly n records, the k-th from row k of the sheet, rows without
\* MATERIAL_NUMBER included; an upload that answers success is such an upload.
C18_CommitCount ==
  \A r \in Reqs :
    LET q == req[r]
        n == Len(q.jsonData)
    IN /\ Accepted(q) => (q.res.success /\ q.res.status = 200)
       /\ (IsAdd(q) /\ q.pc = "done" /\ q.res.success) =>
            /\ Accepted(q)
            /\ q.res.n = n /\ q.insertedCount = n /\ Len(q.inserts) = n
            /\ \A k \in 1..n : CommittedAs(q.inserts[k], q.jsonData[k])
            /\ SeqToBag(q.inserts) \sqsubseteq store

\* a sheet of two rows, one without MATERIAL_NUMBER, committed in full
C18_Witness ==
  \E r \in Reqs :
    /\ IsAdd(req[r]) /\ req[r].pc = "done" /\ req[r].res.success
    /\ req[r].res.n = 2 /\ Len(req[r].inserts) = 2
    /\ \E k \in 1..2 : "MATERIAL_NUMBER" \notin DOMAIN req[r].jsonData[k]
    /\ BagCardinality(store) >= 2

\* request r is served by one of the two checkers and takes a step
CheckerStep(r) ==
  /\ req'[r] # req[r]
  /\ IsAsOf(req[r]) \/ IsScan(req[r]) \/ IsAsOf(req'[r]) \/ IsScan(req'[r])

\* C19: no step of an as-of check or of a true-duplicate scan changes the
\* table, whether the call flags rows, flags none or ends in an error.
C19_CheckersReadOnly ==
  [][(\E r \in Reqs : CheckerStep(r)) => store' = store]_vars

\* an as-of check that flagged a row beside a scan that reported records,
\* over a table that holds records
C19_Witness ==
  /\ store # EmptyBag
  /\ \E r \in Reqs : IsAsOf(req[r]) /\ req[r].pc = "done" /\ req[r].res.duplicates # <<>>
  /\ \E r \in Reqs : ScanAnswered(req[r]) /\ req[r].res.data # <<>>

\* rows j and k of the sheet have the same order number and material number
Twins(q, j, k) ==
  /\ j < k
  /\ HasIdentity(q.jsonData[j]) /\ HasIdentity(q.jsonData[k])
  /\ q.jsonData[j]["ORDERNUMBER"] = q.jsonData[k]["ORDERNUMBER"]
  /\ q.jsonData[j]["MATERIAL_NUMBER"] = q.jsonData[k]["MATERIAL_NUMBER"]

\* how many records of the identity the table holds
IdentityCount(table, ord, mat) ==
  Copies(table, {rec \in BagToSet(table) :
                   rec.ORDERNUMBER = ord /\ rec.MATERIAL_NUMBER = mat})

\* C20: when two rows of an add upload have the same (order number, material
\* number), the check of either row flags nothing if the table holds no record
\* of the identity at that lookup, the other row of the sheet notwithstanding;
\* and when the upload ends its inserts it answers success with both rows
\* committed, the table then holding at least two records of the identity.
C20_SameBatchNotChecked ==
  [][\A r \in Reqs :
       IsAdd(req[r]) =>
         \A j, k \in 1..Len(req[r].jsonData) :
           Twins(req[r], j, k) =>
             LET ord == req[r].jsonData[j]["ORDERNUMBER"]
                 mat == req[r].jsonData[j]["MATERIAL_NUMBER"]
             IN /\ (CheckTurn(r) /\ req[r].i \in {j, k} /\ ~StoreHolds(store, ord, mat)) =>
                     (~Flags(r) /\ req'[r].duplicateList = req[r].duplicateList)
                /\ (req[r].pc = "finish" /\ req'[r].pc = "done") =>
                     /\ req'[r].res.success /\ req'[r].duplicateList = <<>>
                     /\ CommittedAs(req'[r].inserts[j], req[r].jsonData[j])
                     /\ CommittedAs(req'[r].inserts[k], req[r].jsonData[k])
                     /\ IdentityCount(store', ord, mat) >= 2]_vars

\* a sheet of two rows of one identity was accepted into an empty table, which
\* now holds exactly those two records
C20_Witness ==
  \E r \in Reqs :
    /\ IsAdd(req[r]) /\ req[r].pc = "done" /\ req[r].res.success
    /\ Len(req[r].jsonData) = 2 /\ Twins(req[r], 1, 2)
    /\ BagCardinality(store) = 2
    /\ IdentityCount(store, req[r].jsonData[1]["ORDERNUMBER"],
                     req[r].jsonData[1]["MATERIAL_NUMBER"]) = 2


\* the caller of request q was told of flagged rows and of a report to fetch
Conflict(q) ==
  \/ IsAdd(q) /\ q.pc = "done" /\ q.res.status = 409
  \/ IsAsOf(q) /\ q.pc = "done" /\ q.res.status = 200 /\ Len(q.res.duplicates) > 0

\* C21: the report a caller fetches after a response that lists flagged rows
\* is the report of exactly the rows of that response, whatever other
\* requests have written a report in the meantime.
C21_CallerGetsOwnReport ==
  \A r \in Reqs :
    (Conflict(req[r]) /\ req[r].download.status # 0) =>
      /\ req[r].download.status = 200
      /\ req[r].download.file = ReportFile(req[r].res.duplicates)

\* the text a CSV field shows for a cell
FieldText(v) == IF v.t \in {"undefined", "null"} THEN <<>> ELSE ToText(v)

\* request r writes its report in this step
WritesReport(r) ==
  req[r].pc = "report" /\ req'[r].pc = "done" /\ req'[r].error = "none"

WrittenFile(r) ==
  IF IsAdd(req[r]) THEN exports'.duplicates_report ELSE exports'.asof_check_duplicates

\* line k of the file carries every column of the k-th flagged row
CarriesRow(file, list, k) ==
  \A c \in DOMAIN list[k] :
    c \in file.header /\ file.records[k][c] = FieldText(list[k][c])

\* C22: the report written for the flagged rows of an add upload or of an
\* as-of check has one line per flagged row, in flagged order, and the line
\* carries the value of every column of its row, the identity fields
\* included, also when a later row has a column the first row lacks.
C22_ExportComplete ==
  [][\A r \in Reqs :
       WritesReport(r) =>
         LET list == req[r].duplicateList
             file == WrittenFile(r)
         IN /\ file.exists
            /\ Len(file.records) = Len(list)
            /\ \A k \in 1..Len(list) : CarriesRow(file, list, k)]_vars

\* what holds of the code: the lines are complete whenever no flagged row has
\* a column that the first flagged row lacks
C22_ExportCompleteUnderFirstHeader ==
  [][\A r \in Reqs :
       WritesReport(r) =>
         LET list == req[r].duplicateList
             file == WrittenFile(r)
         IN /\ file.exists
            /\ Len(file.records) = Len(list)
            /\ \A k \in 1..Len(list) :
                 DOMAIN list[k] \subseteq DOMAIN list[1] => CarriesRow(file, list, k)
            /\ {"ORDERNUMBER", "MATERIAL_NUMBER"} \subseteq file.header]_vars


\* request q ended because no connection could be acquired
Unavailable(q) == q.pc = "done" /\ q.error = "getConnection"

\* C23: an add upload, an as-of check or a scan that could not acquire a
\* connection has ended with a failure response, without a call to the store.
C23_UnavailableIsAnswered ==
  \A r \in Reqs :
    Unavailable(req[r]) =>
      /\ req[r].res.status >= 400 /\ ~req[r].res.success
      /\ req[r].calls = 0 /\ ~req[r].conn

\* what holds of the code: an add upload that could not acquire a connection
\* is answered 500 by its catch block
C23_AddUnavailableIsAnswered ==
  \A r \in Reqs :
    (IsAdd(req[r]) /\ Unavailable(req[r])) =>
      /\ req[r].res.status = 500 /\ ~req[r].res.success
      /\ req[r].calls = 0 /\ ~req[r].conn


\* a comes before b in ascending order, a NULL after every value
ValueBefore(a, b) ==
  /\ a.t # "null"
  /\ b.t = "null" \/ TextLess(ToText(a), ToText(b))

\* row x comes before row y by order number, then material number, then batch
\* number, then status
RowBefore(x, y) ==
  \/ ValueBefore(x.ORDERNUMBER, y.ORDERNUMBER)
  \/ /\ x.ORDERNUMBER = y.ORDERNUMBER
     /\ \/ ValueBefore(x.MATERIAL_NUMBER, y.MATERIAL_NUMBER)
        \/ /\ x.MATERIAL_NUMBER = y.MATERIAL_NUMBER
           /\ \/ ValueBefore(x.BATCHNUMBER, y.BATCHNUMBER)
              \/ /\ x.BATCHNUMBER = y.BATCHNUMBER
                 /\ ValueBefore(x.STATUS, y.STATUS)

SameIdentity(x, y) ==
  x.ORDERNUMBER = y.ORDERNUMBER /\ x.MATERIAL_NUMBER = y.MATERIAL_NUMBER

\* C24: the rows a scan returns are in ascending order of (order number,
\* material number, batch number, status), so the rows of one identity are
\* next to each other.
C24_ScanSorted ==
  \A r \in Reqs :
    ScanAnswered(req[r]) =>
      LET data == req[r].res.data
      IN /\ \A i, j \in 1..Len(data) : i < j => ~RowBefore(data[j], data[i])
         /\ \A i, j, k \in 1..Len(data) :
              (i < j /\ j < k /\ SameIdentity(data[i], data[k])) =>
                SameIdentity(data[i], data[j])

\* a scan that returned two rows of each of two identities
C24_Witness ==
  \E r \in Reqs :
    /\ ScanAnswered(req[r]) /\ Len(req[r].res.data) = 4
    /\ ~SameIdentity(req[r].res.data[1], req[r].res.data[4])
    /\ SameIdentity(req[r].res.data[1], req[r].res.data[2])

\* C25: two scans answered over the same table return the same rows in the
\* same order, also when rows are tied on the whole sort key.
C25_ScansAgree ==
  \A r1, r2 \in Reqs :
    (ScanAnswered(req[r1]) /\ ScanAnswered(req[r2])) =>
      req[r1].res.data = req[r2].res.data

\* two scans answered over a table with two records of one sort key that
\* differ in another column, both returned
C25_Witness ==
  \E r1, r2 \in Reqs :
    /\ r1 # r2 /\ ScanAnswered(req[r1]) /\ ScanAnswered(req[r2])
    /\ \E x, y \in BagToSet(store) :
         /\ x # y /\ Projection(x) = Projection(y)
         /\ Returned(req[r1].res.data, Projection(x)) >= 2


\* the row indexes the entries of a rejection name
ReportedRows(q) == {q.res.invalidRows[k].row : k \in 1..Len(q.res.invalidRows)}

\* C26: a rejected add upload lists exactly one entry per invalid row, and the
\* number of invalid rows its message states is the number of distinct
\* invalid rows.
C26_OneEntryPerInvalidRow ==
  \A r \in Reqs :
    RejectedByValidation(req[r]) =>
      /\ Len(req[r].res.invalidRows) = Cardinality(ReportedRows(req[r]))
      /\ req[r].res.n = Cardinality(ReportedRows(req[r]))


\* no request is in flight
Quiet == \A r \in Reqs : req[r].pc \in {"idle", "done"}

\* C27: a request that has ended holds no connection, and when no request is
\* in flight no connection of the pool is checked out.
C27_ConnectionsReleased ==
  /\ \A r \in Reqs : req[r].pc = "done" => ~req[r].conn
  /\ Quiet => connsInUse = 0


\* the record has an order number and a material number
FullIdentity(rec) == rec.ORDERNUMBER.t # "null" /\ rec.MATERIAL_NUMBER.t # "null"

\* C28: while add uploads are served one after the other, each without two
\* rows of one identity and without a failing call, the table holds at most
\* one record of every identity that has a material number, and no scan
\* returns a row of such an identity.
C28_SequentialUniqueness ==
  /\ \A rec \in BagToSet(store) :
       FullIdentity(rec) => IdentityCount(store, rec.ORDERNUMBER, rec.MATERIAL_NUMBER) = 1
  /\ \A r \in Reqs :
       ScanAnswered(req[r]) =>
         \A k \in 1..Len(req[r].res.data) : ~FullIdentity(req[r].res.data[k])

\* what holds of the code: the same, for the identities whose material number
\* is not the text of the number 0
C28_SequentialUniquenessNonZero ==
  /\ \A rec \in BagToSet(store) :
       (FullIdentity(rec) /\ rec.MATERIAL_NUMBER # Str(<<"0">>)) =>
         IdentityCount(store, rec.ORDERNUMBER, rec.MATERIAL_NUMBER) = 1
  /\ \A r \in Reqs :
       ScanAnswered(req[r]) =>
         \A k \in 1..Len(req[r].res.data) :
           FullIdentity(req[r].res.data[k]) =>
             req[r].res.data[k].MATERIAL_NUMBER = Str(<<"0">>)

\* request r2 ends in this step, and it uploaded the sheet that the accepted
\* request r1 had uploaded before it
EndsReupload(r1, r2) ==
  /\ r1 # r2 /\ Accepted(req[r1]) /\ Len(req[r1].inserts) = Len(req[r1].jsonData)
  /\ IsAdd(req[r2]) /\ req[r2].jsonData = req[r1].jsonData
  /\ req[r2].pc # "done" /\ req'[r2].pc = "done"

\* C29: an add upload of a sheet that an earlier add upload committed, every
\* row of which has an order number and a material number, ends as a
\* duplicate conflict that flags every row, has committed no row, and leaves
\* the table as it was.
C29_ReuploadRejected ==
  [][\A r1, r2 \in Reqs :
       (/\ EndsReupload(r1, r2)
        /\ \A k \in 1..Len(req[r2].jsonData) : HasIdentity(req[r2].jsonData[k])) =>
         /\ req'[r2].res.status = 409
         /\ Len(req'[r2].res.duplicates) = Len(req[r2].jsonData)
         /\ req'[r2].inserts = <<>>
         /\ store' = store]_vars

\* what holds of the code: the same, for sheets whose order numbers and
\* material numbers are neither empty nor the number 0
C29_ReuploadRejectedNonZero ==
  [][\A r1, r2 \in Reqs :
       (/\ EndsReupload(r1, r2)
        /\ \A k \in 1..Len(req[r2].jsonData) :
             /\ NonZero(req[r2].jsonData[k], "ORDERNUMBER")
             /\ NonZero(req[r2].jsonData[k], "MATERIAL_NUMBER")) =>
         /\ req'[r2].res.status = 409
         /\ Len(req'[r2].res.duplicates) = Len(req[r2].jsonData)
         /\ req'[r2].inserts = <<>>
         /\ store' = store]_vars


IsEdit(q) == q.handler = "editReconciliation"
IsDelete(q) == q.handler = "deleteReconciliation"

\* request r runs its statement in this step and is answered with success
Succeeds(r) == req[r].pc = "execute" /\ req'[r].pc = "done" /\ req'[r].res.success

\* the value a submitted field leaves in the table
Submitted(data, col) ==
  IF col \notin DOMAIN data \/ data[col] = Str(<<>>) THEN Null ELSE data[col]

\* the records of other order numbers are in the table as often as before
OthersUnchanged(o) ==
  \A rec \in BagToSet(store) \cup BagToSet(store') :
    rec.ORDERNUMBER # o => CopiesIn(rec, store') = CopiesIn(rec, store)

=============================================================================
